---- MODULE Spec2Model ----
(***************************************************************************)
(* Model of the Adapt framework import run (AdaptFrameworkImport) and of   *)
(* its hierarchy sorter (getSortedData).                                   *)
(*                                                                         *)
(* Identifiers are integers: the course's package id is CourseLid, the     *)
(* other content items of the package are 1..MaxItems, the config item is  *)
(* ConfigLid, MissingLid is an id that no item of the package carries,     *)
(* Undefined is the JavaScript undefined, and the ids generated by the     *)
(* content store are OidBase + n.                                          *)
(***************************************************************************)
EXTENDS Integers, Sequences, FiniteSets, TLC

\* ---------------------------------------------------------------- bounds
\* Number of content items of a package besides course and config.
MaxItems == 3

Items == 1..MaxItems

\* contentJson.course._id, the declared root of the hierarchy.
CourseLid == 0
\* loadContentFile gives the config item the fixed id 'config'.
ConfigLid == MaxItems + 1
\* A parent id carried by no item of the package.
MissingLid == MaxItems + 2
\* JavaScript undefined (a missing key of idMap, a missing _parentId).
Undefined == -1
\* Store-generated ids (doc._id.toString()) are OidBase + n: never a package id.
OidBase == 100

\* ------------------------------------------------------- hierarchy sorter
\* The keys hierarchy can receive: ids that occur in a level of sorted.
HierKeys == {CourseLid} \cup Items

\* Every arrangement of the ids of S as a sequence without repetition.
Perms(S) == {q \in [1..Cardinality(S) -> S] : \A i, j \in DOMAIN q : i # j => q[i] # q[j]}

\* The inner forEach of one pass: the entries of the last level equal to pid.
Matches(pid, last) == SelectSeq(last, LAMBDA x : x = pid)

\* n copies of the item c.
Repeat(c, n) == [k \in 1..n |-> c]

\* The double forEach of one pass (cos outer, last level inner): the items
\* pushed onto newLevel, in push order, once per matching entry of the level.
RECURSIVE Pushed(_, _, _)
Pushed(cosq, last, i) ==
  IF i > Len(cosq) THEN <<>>
  ELSE Repeat(cosq[i], Len(Matches(cosq[i].parentId, last))) \o Pushed(cosq, last, i + 1)

\* A mutant of PushAll: an item is listed under its own id, not its parent's.
RECURSIVE PushAllOwnKey(_, _, _)
PushAllOwnKey(h, pushed, i) ==
  IF i > Len(pushed) THEN h
  ELSE PushAllOwnKey([h EXCEPT ![pushed[i].id] = Append(@, pushed[i].id)], pushed, i + 1)

\* hierarchy[c._parentId].push(c._id) for every pushed item, in push order.
RECURSIVE PushAll(_, _, _)
PushAll(h, pushed, i) ==
  IF i > Len(pushed) THEN h
  ELSE PushAll([h EXCEPT ![pushed[i].parentId] = Append(@, pushed[i].id)], pushed, i + 1)

\* The state of getSortedData before its while loop.
SortStart(rootId) ==
  [sorted |-> << <<rootId>> >>,
   hierarchy |-> [k \in HierKeys |-> <<>>],
   sortedCount |-> 0,
   passes |-> 0,
   status |-> "loop"]

\* A mutant of SortPassBody: the pass scans every level found so far, not the last.
RECURSIVE Flatten(_, _)
Flatten(levels, i) == IF i > Len(levels) THEN <<>> ELSE levels[i] \o Flatten(levels, i + 1)

SortPassAllLevels(cosq, st) ==
  LET pushed == Pushed(cosq, Flatten(st.sorted, 1), 1)
  IN IF Len(pushed) > 0
     THEN [st EXCEPT !.sorted = Append(@, [k \in 1..Len(pushed) |-> pushed[k].id]),
                     !.hierarchy = PushAll(@, pushed, 1),
                     !.sortedCount = @ + Len(pushed),
                     !.passes = @ + 1]
     ELSE [st EXCEPT !.status = "thrown", !.passes = @ + 1]

\* One iteration of the while loop: a new level, or the structural error.
\* passes counts the iterations (instrumentation, not a field of the code).
SortPassBody(cosq, st) ==
  LET pushed == Pushed(cosq, st.sorted[Len(st.sorted)], 1)
  IN IF Len(pushed) > 0
     THEN [st EXCEPT !.sorted = Append(@, [k \in 1..Len(pushed) |-> pushed[k].id]),
                     !.hierarchy = PushAll(@, pushed, 1),
                     !.sortedCount = @ + Len(pushed),
                     !.passes = @ + 1]
     ELSE [st EXCEPT !.status = "thrown", !.passes = @ + 1]

\* A mutant of SortLoopCond: one pass too many.
SortLoopCondInclusive(cosq, st) == st.sortedCount <= Len(cosq)

\* The loop condition of getSortedData.
SortLoopCond(cosq, st) == st.sortedCount < Len(cosq)

\* getSortedData run to its end: status "returned" or "thrown".
RECURSIVE SortLoop(_, _)
SortLoop(cosq, st) ==
  IF st.status = "thrown" THEN st
  ELSE IF SortLoopCond(cosq, st) THEN SortLoop(cosq, SortPassBody(cosq, st))
  ELSE [st EXCEPT !.status = "returned"]

\* A mutant of GetSortedData: the levels found so far are returned, not thrown.
GetSortedDataPartial(cosq, rootId) ==
  [SortLoop(cosq, SortStart(rootId)) EXCEPT !.status = "returned"]

GetSortedData(cosq, rootId) == SortLoop(cosq, SortStart(rootId))

\* ------------------------------------------------------------------ state
VARIABLES
  settings,     \* this.settings: importContent, importPlugins, updatePlugins
  registry0,    \* the plugin registry as it was before the run
  registry,     \* the plugin registry (contentplugin): name -> "absent" | "older" | "current"
  pkg,          \* this.pkg: the package manifest's version, NoPkg until read
  used,         \* the names of this.usedContentPlugins
  cos,          \* Object.values(contentJson.contentObjects): [id, parentId] in input order
  sortSt,       \* the state of getSortedData: sorted, hierarchy, sortedCount
  pc,           \* where import() is
  error,        \* the error caught by import(), "none" when there is none
  errorData,    \* the item ids listed in an IMPORT_CONTENT_FAILED error
  log,          \* the stages started so far, and cleanUp, in order
  contentStore, \* the content collection: [oid, lid, parentId, courseId]
  nextOid,      \* the number of ids the content store has generated
  idMap,        \* this.idMap: package id (or the key 'course') -> store id
  itemPc,       \* where the importContentObject call of each item is
  itemData,     \* per item: its insertData once transformed, the doc's id once inserted
  levelIdx,     \* the index i of the level loop of importCourseData
  errs,         \* the errors array of the running level (item ids)
  assetStore,   \* the assets created in the asset store
  assetMap,     \* this.assetMap (the assets it maps to)
  newPlugins,   \* the names of this.newContentPlugins
  installCalls, \* the names of the plugins passed to contentplugin.installPlugins
  dirExists,    \* whether the unpacked working directory exists
  cleanUps,     \* how many times cleanUp has been called
  cleanThrew,   \* whether the try block of cleanUp threw (and was caught)
  callFailed,   \* whether a remove, delete or uninstall call of cleanUp failed
  result        \* the promise of import(): "pending", "resolved", or the error it rejects with

sortVars == <<cos, sortSt>>
runVars == <<settings, registry0, registry, pkg, used, pc, error, errorData, log,
             contentStore, nextOid, idMap, itemPc, itemData, levelIdx, errs,
             assetStore, assetMap, newPlugins, installCalls, dirExists, cleanUps, cleanThrew, callFailed, result>>

\* One importContentObject call, followed field by field (asset references).
VARIABLES
  xSchema,      \* schema.properties as content.getSchema resolves it for the item
  xData,        \* the data of the call: the package item, then what the call makes of it
  xPc           \* where the call is: "idle", "getSchema", "transform", "inserted", "rejected"

extractVars == <<xSchema, xData, xPc>>

\* A course of the content store exported by a build and imported again.
VARIABLES
  tStore,       \* the content items of the course in the store (course and config apart)
  tAssets,      \* the assets the course uses (courseassets records)
  tFiles,       \* the JSON files of the exported package: file name -> array
  tDocs,        \* the content items the import has inserted
  tPc           \* "idle", "stored", "built", "loaded", "sorted", "imported", "failed"

tripVars == <<tStore, tAssets, tFiles, tDocs, tPc>>

\* Build runs (AdaptFrameworkBuild.run), two at a time at most.
VARIABLES
  job,          \* per job slot: the AdaptFrameworkBuild instance and where build() is
  bRecords,     \* the adaptbuilds collection: [id, action, createdBy]; location is that of build id
  bOut,         \* the builds whose output location exists on disk
  builds,       \* every build started so far, in order: [action, createdBy, status]
  overlap       \* whether a build was ever started while another was running

buildVars == <<job, bRecords, bOut, builds, overlap>>
\* One cachePluginData call of a build, and the copySource that follows it.
VARIABLES
  rAll,         \* the contentplugin registry, by name: [present, version, deps]
  rNames,       \* the names of config._enabledPlugins
  rPc,          \* "idle", "config", "resolved", "failed", "copied"
  rEnabled,     \* this.enabledPlugins, the names
  rDisabled,    \* this.disabledPlugins, the names
  rError,       \* what cachePluginData threw: [kind, name]
  rCopied       \* the plugin directories copySource has copied

resolveVars == <<rAll, rNames, rPc, rEnabled, rDisabled, rError, rCopied>>
\* transformData applied to one item, and applied again to what it returned.
VARIABLES
  mIn,          \* the item of the package
  mOnce,        \* the data the first application returned
  mOut,         \* the data as the last application left it
  mRuns,        \* the number of applications so far
  mError        \* what an application threw

migrateVars == <<mIn, mOnce, mOut, mRuns, mError>>
\* The first statements of importCourseData, with the data of course and config.
VARIABLES
  dCourse,      \* the course item of the package
  dConfig,      \* the config item of the package
  dDefaults,    \* what jsonschema.validate(schema, {}, { useDefaults: true }) returns
  dStore,       \* the content collection: [course, config, item], <<>> when not stored
  dLog,         \* the store calls that have committed, in order
  dPc           \* the statement importCourseData is at

defaultsVars == <<dCourse, dConfig, dDefaults, dStore, dLog, dPc>>
\* The asset references of one content item through a build.
VARIABLES
  aItem,        \* the item as content.find returns it: field -> [asset, value]
  aUsed,        \* the assets of the course's courseassets records
  aRemote,      \* the assets of aUsed whose document has a url
  aIdMap,       \* this.assetData.idMap: asset id -> path or url
  aOut,         \* the item as transformContentItems leaves it: field -> value
  aCopied,      \* the assets whose bytes copyAssets has written
  aPc           \* "idle", "loaded", "assets", "transformed", "copied"

assetVars == <<aItem, aUsed, aRemote, aIdMap, aOut, aCopied, aPc>>
\* The calls of _cachePluginDeps for one name of config._enabledPlugins, call
\* by call, over the registry rAll.
VARIABLES
  cStack,       \* the running calls, outermost first: [name, i], i the entry forEach is at
  cMemo,        \* the names of memo
  cCount        \* per plugin, the number of calls that went through its dependencies

stackVars == <<cStack, cMemo, cCount>>
\* copyAssets of one build, stream by stream.
VARIABLES
  pIn,          \* per asset, the read stream: "none", "open", "ended", "error"
  pOut,         \* per asset, the write stream: "none", "open", "finished", "error"
  pPromise,     \* per asset, the promise of its mapped call: "pending", "resolved", "rejected"
  pPc           \* where build() is: "idle", "copy", "compile", "recorded", "failed"

pipeVars == <<pIn, pOut, pPromise, pPc>>
\* The build records of one user, the module-wide buildCache and the GET handler.
VARIABLES
  sRecords,     \* the adaptbuilds collection: [id, action]
  sOut,         \* the ids of the builds whose location exists on disk
  sCache,       \* buildCache: the records it holds, by id
  sNext,        \* the number of build records inserted so far
  sLast         \* the last GET since a removal: [id, data, reply], NoGet when there is none

serveVars == <<sRecords, sOut, sCache, sNext, sLast>>
\* Runs of prepare(), each on its own copy of one unzipped package.
VARIABLES
  prIn,         \* the unzipped package: [nest, src, build]
  prRoot,       \* per run, this.unzipPath: "unzip" or "unzip_2"
  prDone,       \* per run, the directories whose fs.stat has settled
  prPath,       \* per run, this.coursePath: [root, dir], NoPath while it is undefined
  prPkg,        \* per run, this.pkg: the version of the manifest, NoPkg while it is not read
  prPc,         \* per run: "idle", "unnest", "stat", "pkg", "convert", "done", "failed"
  prErr         \* per run, what prepare() threw: "none" or the error

prepVars == <<prIn, prRoot, prDone, prPath, prPkg, prPc, prErr>>
moreVars == <<assetVars, stackVars, pipeVars, serveVars, prepVars>>
auxVars == <<extractVars, tripVars, buildVars, resolveVars, migrateVars, defaultsVars, moreVars>>
vars == <<sortVars, runVars, auxVars>>

\* No importContentObject call is followed field by field.
ExtractIdle ==
  /\ xSchema = <<>>
  /\ xData = <<>>
  /\ xPc = "idle"

\* No round trip is under way.
TripIdle ==
  /\ tStore = <<>>
  /\ tAssets = {}
  /\ tFiles = <<>>
  /\ tDocs = {}
  /\ tPc = "idle"

\* The job slots of the build runs.
Builders == {1, 2}

\* An AdaptFrameworkBuild instance that build() has not been called on.
NoJob ==
  [pc |-> "idle", id |-> 0, action |-> "none", createdBy |-> 0, courseExists |-> FALSE,
   oldBuilds |-> {}, copied |-> {}, compiles |-> 0, log |-> <<>>,
   error |-> "none", errorData |-> "none", items |-> <<>>]

\* No build has been run.
BuildIdle ==
  /\ job = [b \in Builders |-> NoJob]
  /\ bRecords = {}
  /\ bOut = {}
  /\ builds = <<>>
  /\ overlap = FALSE

\* No cachePluginData call is followed.
ResolveIdle ==
  /\ rAll = <<>>
  /\ rNames = {}
  /\ rPc = "idle"
  /\ rEnabled = {}
  /\ rDisabled = {}
  /\ rError = [kind |-> "none", name |-> 0]
  /\ rCopied = {}

\* No item is followed through transformData.
MigrateIdle ==
  /\ mIn = <<>>
  /\ mOnce = <<>>
  /\ mOut = <<>>
  /\ mRuns = 0
  /\ mError = "none"

\* The data of course and config is not followed.
DefaultsIdle ==
  /\ dCourse = <<>>
  /\ dConfig = <<>>
  /\ dDefaults = <<>>
  /\ dStore = <<>>
  /\ dLog = <<>>
  /\ dPc = "idle"

\* No item is followed through the asset steps of a build.
AssetIdle ==
  /\ aItem = <<>>
  /\ aUsed = {}
  /\ aRemote = {}
  /\ aIdMap = <<>>
  /\ aOut = <<>>
  /\ aCopied = {}
  /\ aPc = "idle"

\* No _cachePluginDeps call is followed.
StackIdle ==
  /\ cStack = <<>>
  /\ cMemo = {}
  /\ cCount = <<>>

\* No copyAssets call is followed.
PipeIdle ==
  /\ pIn = <<>>
  /\ pOut = <<>>
  /\ pPromise = <<>>
  /\ pPc = "idle"

NoGet == [id |-> 0, data |-> FALSE, reply |-> "none"]

\* No build record exists and none was requested.
ServeIdle ==
  /\ sRecords = {}
  /\ sOut = {}
  /\ sCache = {}
  /\ sNext = 0
  /\ sLast = NoGet

NoPath == [root |-> "none", dir |-> "none"]
NoPackage == [nest |-> "flat", src |-> FALSE, build |-> FALSE]

\* prepare() was not called.
PrepIdle ==
  /\ prIn = NoPackage
  /\ prRoot = <<>>
  /\ prDone = <<>>
  /\ prPath = <<>>
  /\ prPkg = <<>>
  /\ prPc = <<>>
  /\ prErr = <<>>

MoreIdle == AssetIdle /\ StackIdle /\ PipeIdle /\ ServeIdle /\ PrepIdle

AuxIdle ==
  ExtractIdle /\ TripIdle /\ BuildIdle /\ ResolveIdle /\ MigrateIdle /\ DefaultsIdle /\ MoreIdle

\* -------------------------------------------------------- more bounds
\* Number of content items of a package in an import run (at most MaxItems).
MaxImportItems == 2
\* Number of plugins a package can reference.
MaxPlugins == 1
\* Number of asset files a package can carry.
MaxAssets == 1
Plugins == 1..MaxPlugins
Assets == 1..MaxAssets

\* The major version of the running framework (framework.version).
FrameworkMajor == 5
\* The major versions a package manifest can declare.
PkgMajors == {FrameworkMajor - 2, FrameworkMajor, FrameworkMajor + 1}
\* The versions a package manifest can declare: major.minor.0, with or
\* without a prerelease tag (5.1.0-rc.1).
PkgVersions == [major : PkgMajors, minor : {0, 1}, pre : BOOLEAN]
NoPkg == [major |-> 0, minor |-> 0, pre |-> FALSE]

\* The key 'course' of idMap (this.idMap.course).
CourseKey == MaxItems + 3
IdKeys == {CourseLid, ConfigLid, CourseKey} \cup Items

\* A mutant of SemverSatisfies: any version of the range's major satisfies it.
SemverSatisfiesAnyTag(v, major) == v.major = major

\* semver.satisfies(version, String(major)): the range "5" is >=5.0.0 <6.0.0-0,
\* and a version with a prerelease tag satisfies a range only when a comparator
\* of the same major.minor.patch carries a tag too, which none here does.
SemverSatisfies(v, major) == v.major = major /\ ~v.pre

\* A mutant of Stages: asset import after plugin resolution.
StagesPluginsFirst == <<"prepare", "load", "plugins", "assets", "content">>

\* The stages of import() in the order of its awaits.
Stages == <<"prepare", "assets", "load", "plugins", "content">>

\* Whether import() runs the stage at all (its if(this.settings...) guards).
StageEnabled(s, st) ==
  CASE s = "assets" -> st.importContent
    [] s = "plugins" -> st.importPlugins
    [] s = "content" -> st.importContent
    [] OTHER -> TRUE

StageIndex(s) == CHOOSE i \in DOMAIN Stages : Stages[i] = s

\* The pc after stage s has returned: the next stage that is enabled, else cleanUp.
NextPc(s, st) ==
  LET later == {i \in DOMAIN Stages : i > StageIndex(s) /\ StageEnabled(Stages[i], st)}
  IN IF later = {} THEN "cleanUp"
     ELSE Stages[CHOOSE i \in later : \A j \in later : i <= j]

\* A stage has thrown: import() catches e and goes on to cleanUp.
Throw(e) ==
  /\ error' = e
  /\ pc' = "cleanUp"

\* A mutant of PluginsToInstall: an installed plugin is updated whenever
\* updatePlugins is set, whatever its version.
PluginsToInstallAnyVersion(usedNames, reg, st) ==
  {p \in usedNames : reg[p] = "absent" \/ st.updatePlugins}

\* The plugins importCoursePlugins decides to install or update.
PluginsToInstall(usedNames, reg, st) ==
  {p \in usedNames : reg[p] = "absent" \/ (st.updatePlugins /\ reg[p] = "older")}

Init ==
  /\ settings \in [importContent : BOOLEAN, importPlugins : BOOLEAN, updatePlugins : BOOLEAN]
  /\ registry0 \in [Plugins -> {"absent", "older", "current"}]
  /\ registry = registry0
  /\ pkg = NoPkg
  /\ used = {}
  /\ cos = <<>>
  /\ sortSt = SortStart(CourseLid)
  /\ pc = "prepare"
  /\ error = "none"
  /\ errorData = {}
  /\ log = <<>>
  /\ contentStore = {}
  /\ nextOid = 0
  /\ idMap = [k \in IdKeys |-> Undefined]
  /\ itemPc = [i \in Items |-> "idle"]
  /\ itemData = [i \in Items |-> [parentId |-> Undefined, courseId |-> Undefined, sortOrder |-> Undefined,
                                      oid |-> Undefined]]
  /\ levelIdx = 0
  /\ errs = {}
  /\ assetStore = {}
  /\ assetMap = {}
  /\ newPlugins = {}
  /\ installCalls = {}
  /\ dirExists = TRUE
  /\ cleanUps = 0
  /\ cleanThrew = FALSE
  /\ callFailed = FALSE
  /\ result = "pending"
  /\ AuxIdle

\* prepare(): the course directory, the manifest and its version, convertSchemas.
Prepare ==
  /\ pc = "prepare"
  /\ log' = Append(log, "prepare")
  /\ \E hasCourse \in BOOLEAN, readable \in BOOLEAN, v \in PkgVersions, converted \in BOOLEAN :
       IF ~hasCourse THEN Throw("INVALID_COURSE") /\ pkg' = pkg
       ELSE IF ~readable THEN Throw("IMPORT_INVALID") /\ pkg' = pkg
       ELSE /\ pkg' = v
            /\ IF ~SemverSatisfies(v, FrameworkMajor) THEN Throw("FW_INCOMPAT")
               ELSE IF ~converted THEN Throw("ConvertSchemasError")
               ELSE pc' = NextPc("prepare", settings) /\ error' = error
  /\ UNCHANGED <<auxVars, sortVars, settings, registry0, registry, used, errorData, contentStore,
                 nextOid, idMap, itemPc, itemData, levelIdx, errs, assetStore, assetMap,
                 newPlugins, installCalls, dirExists, cleanUps, cleanThrew, callFailed, result>>

\* importCourseAssets(): every file is imported on its own (Promise.allSettled),
\* so the stage never throws; ok are the files whose import succeeded.
ImportCourseAssets ==
  /\ pc = "assets"
  /\ log' = Append(log, "assets")
  /\ \E ok \in SUBSET Assets :
       /\ assetStore' = assetStore \cup ok
       /\ assetMap' = assetMap \cup ok
  /\ pc' = NextPc("assets", settings)
  /\ UNCHANGED <<auxVars, sortVars, settings, registry0, registry, pkg, used, error, errorData,
                 contentStore, nextOid, idMap, itemPc, itemData, levelIdx, errs,
                 newPlugins, installCalls, dirExists, cleanUps, cleanThrew, callFailed, result>>

\* loadCourseData(): the plugins of the package and its content files. The
\* items of the content files are drawn where they are first read (SortData).
LoadCourseData ==
  /\ pc = "load"
  /\ log' = Append(log, "load")
  /\ \/ \E u \in SUBSET Plugins :
          /\ used' = u
          /\ pc' = NextPc("load", settings)
          /\ error' = error
     \/ used' = used /\ Throw("LoadError")
  /\ UNCHANGED <<auxVars, sortVars, settings, registry0, registry, pkg, errorData, contentStore,
                 nextOid, idMap, itemPc, itemData, levelIdx, errs, assetStore, assetMap,
                 newPlugins, installCalls, dirExists, cleanUps, cleanThrew, callFailed, result>>

\* import() awaits importCoursePlugins() only when settings.importPlugins is set.
\* ok are the plugins whose installPlugins call succeeded.
ImportCoursePlugins ==
  /\ pc = "plugins"
  /\ log' = Append(log, "plugins")
  /\ LET toInstall == PluginsToInstall(used, registry, settings)
     IN IF toInstall # {} /\ ~settings.importPlugins
        THEN Throw("MISSING_PLUGINS") /\ UNCHANGED <<registry, newPlugins, installCalls>>
        ELSE \E ok \in SUBSET toInstall :
               /\ newPlugins' = newPlugins \cup ok
               /\ installCalls' = installCalls \cup toInstall
               /\ registry' = [p \in Plugins |-> IF p \in ok THEN "current" ELSE registry[p]]
               /\ IF ok # toInstall THEN Throw("IMPORT_PLUGINS_FAILED")
                  ELSE pc' = NextPc("plugins", settings) /\ error' = error
  /\ UNCHANGED <<auxVars, sortVars, settings, registry0, pkg, used, errorData, contentStore,
                 nextOid, idMap, itemPc, itemData, levelIdx, errs, assetStore, assetMap,
                 dirExists, cleanUps, cleanThrew, callFailed, result>>

\* ------------------------------------------------------ importCourseData
\* A mutant of NewOid: the store hands out the same id for every document.
NewOidShared(lid) == OidBase

\* The id the content store generates for the document of package item lid:
\* fresh, and distinct from the id of every other document.
NewOid(lid) == OidBase + lid

\* A mutant of TransformParentId: the parent reference is left as the package has it.
TransformParentIdKept(pid, map) == pid

\* transformData: if(data._parentId) data._parentId = this.idMap[data._parentId].
TransformParentId(pid, map) ==
  IF pid = Undefined THEN pid
  ELSE IF pid \in DOMAIN map THEN map[pid] ELSE Undefined

\* sortedIds[i]: sorted without its first level, the course.
LevelIds(i) ==
  LET lv == sortSt.sorted[i + 1] IN {lv[k] : k \in DOMAIN lv}
NumLevels == Len(sortSt.sorted) - 1

\* A mutant of LevelSettled: the loop goes on without awaiting the level's inserts.
LevelSettledNoAwait(ids) == TRUE

\* A mutant of LevelSettled: the loop goes on only once the insert of every
\* item of the level has committed, as a subscriber of commit events would.
LevelSettledOnCommit(ids) == \A i \in ids : itemPc[i] = "done"

\* await Promise.all(ids.map(...)) resolves: every mapped call has returned, its
\* insert committed and mapped, or its error pushed onto errors.
LevelSettled(ids) == \A i \in ids : itemPc[i] \in {"done", "failed"}

\* importContentObject(course): the insert, the idMap entries, then the update
\* that sets the course's own _courseId.
ImportCourse ==
  /\ pc = "content"
  /\ log' = Append(log, "content")
  /\ \E outcome \in {"ok", "insertFails", "updateFails"} :
       IF outcome = "insertFails"
       THEN Throw("InsertError") /\ UNCHANGED <<contentStore, nextOid, idMap>>
       ELSE /\ nextOid' = nextOid + 1
            /\ idMap' = [idMap EXCEPT ![CourseKey] = NewOid(CourseLid), ![CourseLid] = NewOid(CourseLid)]
            /\ IF outcome = "updateFails"
               THEN /\ contentStore' = contentStore \cup
                         {[oid |-> NewOid(CourseLid), lid |-> CourseLid, parentId |-> Undefined,
                           sortOrder |-> Undefined,
                           courseId |-> Undefined, enabledPlugins |-> 0]}
                    /\ Throw("UpdateError")
               ELSE /\ contentStore' = contentStore \cup
                         {[oid |-> NewOid(CourseLid), lid |-> CourseLid, parentId |-> Undefined,
                           sortOrder |-> Undefined,
                           courseId |-> NewOid(CourseLid), enabledPlugins |-> 0]}
                    /\ pc' = "config"
                    /\ error' = error
  /\ UNCHANGED <<auxVars, sortVars, settings, registry0, registry, pkg, used, errorData, itemPc,
                 itemData, levelIdx, errs, assetStore, assetMap, newPlugins, installCalls, dirExists,
                 cleanUps, cleanThrew, callFailed, result>>

\* importContentObject(config).
ImportConfig ==
  /\ pc = "config"
  /\ \E ok \in BOOLEAN :
       IF ok
       THEN /\ contentStore' = contentStore \cup
                 {[oid |-> NewOid(ConfigLid), lid |-> ConfigLid, parentId |-> Undefined,
                   sortOrder |-> Undefined,
                   courseId |-> idMap[CourseKey], enabledPlugins |-> 0]}
            /\ nextOid' = nextOid + 1
            /\ idMap' = [idMap EXCEPT ![ConfigLid] = NewOid(ConfigLid)]
            /\ pc' = "defaults"
            /\ error' = error
       ELSE Throw("InsertError") /\ UNCHANGED <<contentStore, nextOid, idMap>>
  /\ UNCHANGED <<auxVars, sortVars, settings, registry0, registry, pkg, used, errorData, log, itemPc,
                 itemData, levelIdx, errs, assetStore, assetMap, newPlugins, installCalls, dirExists,
                 cleanUps, cleanThrew, callFailed, result>>

\* applyDefaults(course) and applyDefaults(config).
ApplyDefaults ==
  /\ pc = "defaults"
  /\ \E ok \in BOOLEAN :
       IF ok THEN pc' = "sort" /\ error' = error ELSE Throw("ApplyDefaultsError")
  /\ UNCHANGED <<auxVars, sortVars, settings, registry0, registry, pkg, used, errorData, log,
                 contentStore, nextOid, idMap, itemPc, itemData, levelIdx, errs, assetStore,
                 assetMap, newPlugins, installCalls, dirExists, cleanUps, cleanThrew, callFailed, result>>

\* const { sorted, hierarchy } = await this.getSortedData(). The content files
\* loaded by loadCourseData hold the items 1..n in that order, each naming as
\* parent the course, an item or an absent id, none carrying a _sortOrder.
SortData ==
  /\ pc = "sort"
  /\ \E n \in 0..MaxImportItems :
       \E par \in [1..n -> {CourseLid, MissingLid} \cup (1..n)] :
         cos' = [k \in 1..n |-> [id |-> k, parentId |-> par[k], sortOrder |-> Undefined]]
  /\ sortSt' = GetSortedData(cos', CourseLid)
  /\ IF sortSt'.status = "thrown"
     THEN Throw("IMPORT_CONTENT_SORT_FAILED") /\ levelIdx' = levelIdx
     ELSE /\ levelIdx' = 1
          /\ pc' = IF Len(sortSt'.sorted) > 1 THEN "level" ELSE "enabledPlugins"
          /\ error' = error
  /\ UNCHANGED <<auxVars, settings, registry0, registry, pkg, used, errorData, log,
                 contentStore, nextOid, idMap, itemPc, itemData, errs, assetStore,
                 assetMap, newPlugins, installCalls, dirExists, cleanUps, cleanThrew, callFailed, result>>

\* The position of x in the list q, 0 when it is not in it: q.indexOf(x) + 1.
IndexOf(q, x) == IF \E k \in DOMAIN q : q[k] = x
                 THEN CHOOSE k \in DOMAIN q : q[k] = x /\ \A j \in 1..(k - 1) : q[j] # x
                 ELSE 0

\* const _sortOrder = hierarchy[co._parentId].indexOf(_id) + 1; the spread
\* { ...co, _sortOrder } then replaces any _sortOrder the package item carries.
SortOrderOf(h, co) == IndexOf(h[co.parentId], co.id)

\* One iteration of the level loop begins: ids.map(async _id => ...) calls
\* importContentObject for every id of the level, each up to its first await.
DispatchLevel ==
  /\ pc = "level"
  /\ itemPc' = [i \in Items |-> IF i \in LevelIds(levelIdx) THEN "started" ELSE itemPc[i]]
  /\ itemData' = [i \in Items |->
                    IF i \in LevelIds(levelIdx)
                    THEN [itemData[i] EXCEPT !.sortOrder = SortOrderOf(sortSt.hierarchy, cos[i])]
                    ELSE itemData[i]]
  /\ errs' = {}
  /\ pc' = "await"
  /\ UNCHANGED <<auxVars, sortVars, settings, registry0, registry, pkg, used, error, errorData, log,
                 contentStore, nextOid, idMap, levelIdx, assetStore, assetMap,
                 newPlugins, installCalls, dirExists, cleanUps, cleanThrew, callFailed, result>>

\* importContentObject resumes after getSchema: insertData is built and
\* transformData rewrites its parent reference.
ItemTransform(i) ==
  /\ itemPc[i] = "started"
  /\ itemData' = [itemData EXCEPT ![i] =
        [parentId |-> TransformParentId(cos[i].parentId, idMap),
         sortOrder |-> itemData[i].sortOrder,
         courseId |-> idMap[CourseKey],
         oid |-> Undefined]]
  /\ itemPc' = [itemPc EXCEPT ![i] = "transformed"]
  /\ UNCHANGED <<auxVars, sortVars, settings, registry0, registry, pkg, used, pc, error, errorData,
                 log, contentStore, nextOid, idMap, levelIdx, errs, assetStore, assetMap,
                 newPlugins, installCalls, dirExists, cleanUps, cleanThrew, callFailed, result>>

\* The enabled-plugin set is persisted on the course: the course's document
\* counts the times.
EnabledPluginsUpdated(store) ==
  {IF r.lid = CourseLid THEN [r EXCEPT !.enabledPlugins = @ + 1] ELSE r : r \in store}

\* A mutant of InsertUpdatesEnabledPlugins: every insert persists the set.
InsertUpdatesEnabledPluginsAlways == TRUE

\* content.insert(insertData, { ..., updateEnabledPlugins: false, ... })
InsertUpdatesEnabledPlugins == FALSE

\* content.insert commits the item's document.
ItemInsert(i) ==
  /\ itemPc[i] = "transformed"
  /\ contentStore' =
       (IF InsertUpdatesEnabledPlugins THEN EnabledPluginsUpdated(contentStore)
        ELSE contentStore) \cup
       {[oid |-> NewOid(i), lid |-> i, parentId |-> itemData[i].parentId,
         sortOrder |-> itemData[i].sortOrder,
         courseId |-> itemData[i].courseId, enabledPlugins |-> 0]}
  /\ nextOid' = nextOid + 1
  /\ itemData' = [itemData EXCEPT ![i].oid = NewOid(i)]
  /\ itemPc' = [itemPc EXCEPT ![i] = "inserted"]
  /\ UNCHANGED <<auxVars, sortVars, settings, registry0, registry, pkg, used, pc, error, errorData,
                 log, idMap, levelIdx, errs, assetStore, assetMap, newPlugins, installCalls,
                 dirExists, cleanUps, cleanThrew, callFailed, result>>

\* importContentObject resumes after the insert: this.idMap[data._id] = doc._id.
ItemMapped(i) ==
  /\ itemPc[i] = "inserted"
  /\ idMap' = [idMap EXCEPT ![i] = itemData[i].oid]
  /\ itemPc' = [itemPc EXCEPT ![i] = "done"]
  /\ UNCHANGED <<auxVars, sortVars, settings, registry0, registry, pkg, used, pc, error, errorData,
                 log, contentStore, nextOid, itemData, levelIdx, errs, assetStore, assetMap,
                 newPlugins, installCalls, dirExists, cleanUps, cleanThrew, callFailed, result>>

\* content.insert rejects with a validation error (e.data.schemaName and
\* e.data.errors are set): the catch block pushes it onto errors.
ItemInvalid(i) ==
  /\ itemPc[i] = "transformed"
  /\ itemPc' = [itemPc EXCEPT ![i] = "failed"]
  /\ errs' = errs \cup {i}
  /\ UNCHANGED <<auxVars, sortVars, settings, registry0, registry, pkg, used, pc, error, errorData,
                 log, contentStore, nextOid, idMap, itemData, levelIdx, assetStore, assetMap,
                 newPlugins, installCalls, dirExists, cleanUps, cleanThrew, callFailed, result>>

\* The item's call rejects with an error that has no data: the catch block
\* itself throws a TypeError on e.data.schemaName, the mapped promise rejects,
\* Promise.all rejects at once and importCourseData throws while the other
\* inserts of the level are still running.
ItemCrash(i) ==
  /\ itemPc[i] = "transformed"
  /\ itemPc' = [itemPc EXCEPT ![i] = "crashed"]
  /\ IF pc = "await" THEN Throw("TypeError") ELSE UNCHANGED <<pc, error>>
  /\ UNCHANGED <<auxVars, sortVars, settings, registry0, registry, pkg, used, errorData, log,
                 contentStore, nextOid, idMap, itemData, levelIdx, errs, assetStore,
                 assetMap, newPlugins, installCalls, dirExists, cleanUps, cleanThrew, callFailed, result>>

\* Promise.all of the level has resolved: the errors of the level are thrown
\* together, or the loop goes on to the next level.
LevelDone ==
  /\ pc = "await"
  /\ LevelSettled(LevelIds(levelIdx))
  /\ IF errs # {}
     THEN Throw("IMPORT_CONTENT_FAILED") /\ errorData' = errs /\ levelIdx' = levelIdx
     ELSE /\ levelIdx' = levelIdx + 1
          /\ pc' = IF levelIdx < NumLevels THEN "level" ELSE "enabledPlugins"
          /\ UNCHANGED <<error, errorData>>
  /\ UNCHANGED <<auxVars, sortVars, settings, registry0, registry, pkg, used, log, contentStore,
                 nextOid, idMap, itemPc, itemData, errs, assetStore, assetMap, newPlugins, installCalls,
                 dirExists, cleanUps, cleanThrew, callFailed, result>>

\* await this.content.updateEnabledPlugins(course).
UpdateEnabledPlugins ==
  /\ pc = "enabledPlugins"
  /\ \E ok \in BOOLEAN :
       IF ok
       THEN /\ contentStore' = EnabledPluginsUpdated(contentStore)
            /\ pc' = "cleanUp"
            /\ error' = error
       ELSE Throw("UpdateEnabledPluginsError") /\ contentStore' = contentStore
  /\ UNCHANGED <<auxVars, sortVars, settings, registry0, registry, pkg, used, errorData, log,
                 nextOid, idMap, itemPc, itemData, levelIdx, errs, assetStore,
                 assetMap, newPlugins, installCalls, dirExists, cleanUps, cleanThrew, callFailed, result>>

\* ---------------------------------------------------------------- cleanUp
\* content.deleteMany({ _courseId }).
DeleteMany(store, courseId) ==
  IF courseId = Undefined THEN store ELSE {r \in store : r.courseId # courseId}

\* A mutant of CleanUpRethrows: cleanUp throws what its tasks threw.
CleanUpRethrowsAll(threw) == threw

\* catch(e) {} of cleanUp: whatever its try block threw is ignored.
CleanUpRethrows(threw) == FALSE

\* The calls of cleanUp that can fail: fs.remove always; the deleteMany calls
\* when the error tasks are pushed; uninstallPlugin and assets.delete only if
\* there is a new plugin or a mapped asset to call them for.
CleanUpCalls(tasksPushed) ==
  {"remove"}
    \cup (IF tasksPushed THEN {"deleteMany"} ELSE {})
    \cup (IF tasksPushed /\ newPlugins # {} THEN {"uninstallPlugin"} ELSE {})
    \cup (IF tasksPushed /\ assetMap # {} THEN {"assetsDelete"} ELSE {})

\* await this.cleanUp(error); if(error) throw error; return this.
\* ObjectId.parse(undefined) either throws, and then the error tasks are never
\* pushed, or yields an id that no document carries. fault is the call of
\* cleanUp that fails, if one does.
CleanUp ==
  /\ pc = "cleanUp"
  /\ log' = Append(log, "cleanUp")
  /\ cleanUps' = cleanUps + 1
  /\ LET courseId == idMap[CourseLid]
         failed == error # "none"
     IN \E parseThrows \in (IF failed /\ courseId = Undefined THEN BOOLEAN ELSE {FALSE}) :
          LET tasksPushed == failed /\ ~parseThrows
          IN \E fault \in {"none"} \cup CleanUpCalls(tasksPushed) :
               /\ dirExists' = (dirExists /\ fault = "remove")
               /\ contentStore' = IF tasksPushed /\ fault # "deleteMany"
                                  THEN DeleteMany(contentStore, courseId) ELSE contentStore
               /\ registry' = IF tasksPushed /\ fault # "uninstallPlugin"
                              THEN [p \in Plugins |->
                                      IF p \in newPlugins THEN "absent" ELSE registry[p]]
                              ELSE registry
               /\ assetStore' = IF tasksPushed /\ fault # "assetsDelete"
                                THEN assetStore \ assetMap ELSE assetStore
               /\ callFailed' = (fault # "none")
               /\ cleanThrew' = (parseThrows \/ fault # "none")
               /\ result' = IF CleanUpRethrows(cleanThrew') THEN "CleanUpError"
                            ELSE IF failed THEN error
                            ELSE "resolved"
  /\ pc' = "settled"
  /\ UNCHANGED <<auxVars, sortVars, settings, registry0, pkg, used, error, errorData, nextOid, idMap,
                 itemPc, itemData, levelIdx, errs, assetMap, newPlugins, installCalls>>

Next ==
  \/ Prepare
  \/ ImportCourseAssets
  \/ LoadCourseData
  \/ ImportCoursePlugins
  \/ ImportCourse
  \/ ImportConfig
  \/ ApplyDefaults
  \/ SortData
  \/ DispatchLevel
  \/ \E i \in Items : ItemTransform(i)
  \/ \E i \in Items : ItemInsert(i)
  \/ \E i \in Items : ItemMapped(i)
  \/ \E i \in Items : ItemInvalid(i)
  \/ \E i \in Items : ItemCrash(i)
  \/ LevelDone
  \/ UpdateEnabledPlugins
  \/ CleanUp

Spec == Init /\ [][Next]_vars

\* An import of content whose plugins are all installed and current.
LiveInit ==
  /\ Init
  /\ settings.importContent
  /\ ~settings.updatePlugins
  /\ registry0 = [p \in Plugins |-> "current"]

\* The import run on an event loop that runs every callback that is ready, with
\* collaborators whose promises settle: a step that can be taken is taken.
FairSpec == LiveInit /\ [][Next]_vars /\ WF_vars(Next)

\* ------------------------------------------------- sorter, pass by pass
\* The import run stays as constructed while the sorter alone is run.
RunIdle ==
  /\ settings = [importContent |-> TRUE, importPlugins |-> TRUE, updatePlugins |-> FALSE]
  /\ registry0 = [p \in Plugins |-> "absent"]
  /\ registry = registry0
  /\ pkg = NoPkg
  /\ used = {}
  /\ pc = "sort"
  /\ error = "none"
  /\ errorData = {}
  /\ log = <<>>
  /\ contentStore = {}
  /\ nextOid = 0
  /\ idMap = [k \in IdKeys |-> Undefined]
  /\ itemPc = [i \in Items |-> "idle"]
  /\ itemData = [i \in Items |-> [parentId |-> Undefined, courseId |-> Undefined, sortOrder |-> Undefined,
                                      oid |-> Undefined]]
  /\ levelIdx = 0
  /\ errs = {}
  /\ assetStore = {}
  /\ assetMap = {}
  /\ newPlugins = {}
  /\ installCalls = {}
  /\ dirExists = TRUE
  /\ cleanUps = 0
  /\ cleanThrew = FALSE
  /\ callFailed = FALSE
  /\ result = "pending"

\* The item set given to the sorter: any subset of Items in any input order,
\* each item naming as parent the course, an item, itself or an absent id;
\* either no item carries a _sortOrder, or every item carries one and the
\* _sortOrder values reverse the input order.
SortInit ==
  /\ \E S \in SUBSET Items :
       \E q \in Perms(S), par \in [S -> {CourseLid, MissingLid} \cup S] :
         \E explicit \in (IF Len(q) >= 2 THEN BOOLEAN ELSE {FALSE}) :
           cos = [k \in 1..Len(q) |->
                    [id |-> q[k], parentId |-> par[q[k]],
                     sortOrder |-> IF explicit THEN Len(q) + 1 - k ELSE Undefined]]
  /\ sortSt = SortStart(CourseLid)
  /\ RunIdle
  /\ AuxIdle

SortPass ==
  /\ sortSt.status = "loop"
  /\ SortLoopCond(cos, sortSt)
  /\ sortSt' = SortPassBody(cos, sortSt)
  /\ UNCHANGED <<auxVars, cos, runVars>>

SortReturn ==
  /\ sortSt.status = "loop"
  /\ ~SortLoopCond(cos, sortSt)
  /\ sortSt' = [sortSt EXCEPT !.status = "returned"]
  /\ UNCHANGED <<auxVars, cos, runVars>>

SortNext == SortPass \/ SortReturn

SortSpec == SortInit /\ [][SortNext]_vars

\* ------------------------------------- importContentObject, field by field
\* Length of the longest array a package item carries.
MaxArrayLen == 1

\* Reference strings of a package item: the path of asset file a for a in
\* Assets, and one path that names no file of the package.
Refs == Assets \cup {MaxAssets + 1}

\* Ids the asset store generates (asset._id.toString()): never a reference.
AssetOidBase == 200
AssetId(a) == AssetOidBase + a

\* Property descriptions of a schema: a field flagged _backboneForms "Asset",
\* an unflagged field, an object (val.properties), an array of objects
\* (val.items.properties).
AssetProp == [kind |-> "asset", props |-> <<>>]
PlainProp == [kind |-> "plain", props |-> <<>>]
ObjectProp(p) == [kind |-> "object", props |-> p]
ArrayProp(p) == [kind |-> "array", props |-> p]

\* The schemas getSchema resolves: a flagged field inside an object, and a
\* flagged field beside an array of objects that hold one.
GraphicProps == [src |-> AssetProp, alt |-> PlainProp]
Schemas ==
  {[_graphic |-> ObjectProp(GraphicProps), title |-> PlainProp],
   [_items |-> ArrayProp([_graphic |-> ObjectProp(GraphicProps)]), _hero |-> AssetProp]}

\* Values of a data object: a string (a reference, or text), an object, an
\* array, undefined, and the id of a stored asset.
Str(r) == [t |-> "str", v |-> r]
Obj(d) == [t |-> "obj", v |-> d]
Arr(q) == [t |-> "arr", v |-> q]
Undef == [t |-> "undef", v |-> Undefined]
Id(n) == [t |-> "id", v |-> n]

\* The data objects a package can carry for a schema: every key of the schema
\* absent or holding a value of the described kind.
RECURSIVE DataOver(_, _)
RECURSIVE ValuesOf(_)
ValuesOf(val) ==
  IF val.kind = "asset" THEN {Str(r) : r \in Refs}
  ELSE IF val.kind = "plain" THEN {Str(0)}
  ELSE IF val.kind = "object" THEN {Obj(d) : d \in DataOver(val.props, DOMAIN val.props)}
  ELSE {Arr(q) : q \in UNION {[1..n -> DataOver(val.props, DOMAIN val.props)] :
                               n \in 0..MaxArrayLen}}

DataOver(schema, K) ==
  IF K = {} THEN {[k \in {} |-> Undef]}
  ELSE LET k == CHOOSE x \in K : TRUE
           rest == DataOver(schema, K \ {k})
       IN rest \cup {[x \in DOMAIN d \cup {k} |-> IF x = k THEN v ELSE d[x]] :
                       d \in rest, v \in ValuesOf(schema[k])}

\* this.assetMap[ref]: the id of the asset imported for the reference, if any.
AssetMapGet(ref) == IF ref \in assetMap THEN Id(AssetId(ref)) ELSE Undef

\* extractAssetsRecursive(schema, data): data with every flagged field that the
\* walk reaches replaced by this.assetMap[field]. Keys the data lacks are
\* skipped; keys the schema lacks are never visited.
RECURSIVE ExtractAssetsRecursive(_, _)
ExtractAssetsRecursive(schema, data) ==
  [key \in DOMAIN data |->
     IF key \notin DOMAIN schema \/ data[key].t = "undef" THEN data[key]
     ELSE LET val == schema[key]
          IN IF val.kind = "object"
             THEN Obj(ExtractAssetsRecursive(val.props, data[key].v))
             ELSE IF val.kind = "array"
             THEN Arr([n \in DOMAIN data[key].v |->
                         ExtractAssetsRecursive(val.props, data[key].v[n])])
             ELSE IF val.kind = "asset" THEN AssetMapGet(data[key].v)
             ELSE data[key]]

\* importContentObject(data) is called for an item of the level loop: the
\* assets of the package are imported (or failed, and were skipped), the course
\* exists, getSchema is awaited.
ExtractInit ==
  /\ \E am \in SUBSET Assets : assetMap = am /\ assetStore = am
  /\ \E sch \in Schemas :
       /\ xSchema = sch
       /\ xData \in DataOver(sch, DOMAIN sch)
  /\ xPc = "getSchema"
  /\ settings = [importContent |-> TRUE, importPlugins |-> TRUE, updatePlugins |-> FALSE]
  /\ registry0 = [p \in Plugins |-> "absent"]
  /\ registry = registry0
  /\ pkg = [major |-> FrameworkMajor, minor |-> 0, pre |-> FALSE]
  /\ used = {}
  /\ cos = <<>>
  /\ sortSt = [SortStart(CourseLid) EXCEPT !.status = "returned"]
  /\ pc = "await"
  /\ error = "none"
  /\ errorData = {}
  /\ log = <<"prepare", "assets", "load", "plugins", "content">>
  /\ contentStore = {}
  /\ nextOid = 0
  /\ idMap = [k \in IdKeys |-> Undefined]
  /\ itemPc = [i \in Items |-> "idle"]
  /\ itemData = [i \in Items |-> [parentId |-> Undefined, courseId |-> Undefined,
                                  sortOrder |-> Undefined, oid |-> Undefined]]
  /\ levelIdx = 0
  /\ errs = {}
  /\ newPlugins = {}
  /\ installCalls = {}
  /\ dirExists = TRUE
  /\ cleanUps = 0
  /\ cleanThrew = FALSE
  /\ callFailed = FALSE
  /\ result = "pending"
  /\ TripIdle
  /\ BuildIdle
  /\ ResolveIdle
  /\ MigrateIdle
  /\ DefaultsIdle
  /\ MoreIdle

\* getSchema resolves: extractAssetsRecursive(schema.properties, data).
SchemaResolved ==
  /\ xPc = "getSchema"
  /\ xData' = ExtractAssetsRecursive(xSchema, xData)
  /\ xPc' = "transform"
  /\ UNCHANGED <<sortVars, runVars, moreVars, resolveVars, migrateVars, defaultsVars, tripVars, buildVars, xSchema>>

\* getSchema rejects: the catch block logs the error and the call goes on
\* with the data as the package carries it.
SchemaRejected ==
  /\ xPc = "getSchema"
  /\ xPc' = "transform"
  /\ UNCHANGED <<sortVars, runVars, moreVars, resolveVars, migrateVars, defaultsVars, tripVars, buildVars, xSchema, xData>>

\* transformData and content.insert: the document is committed with the data.
InsertCommitted ==
  /\ xPc = "transform"
  /\ xPc' = "inserted"
  /\ UNCHANGED <<sortVars, runVars, moreVars, resolveVars, migrateVars, defaultsVars, tripVars, buildVars, xSchema, xData>>

\* content.insert rejects: nothing is committed.
InsertRejected ==
  /\ xPc = "transform"
  /\ xPc' = "rejected"
  /\ UNCHANGED <<sortVars, runVars, moreVars, resolveVars, migrateVars, defaultsVars, tripVars, buildVars, xSchema, xData>>

ExtractNext == SchemaResolved \/ SchemaRejected \/ InsertCommitted \/ InsertRejected

ExtractSpec == ExtractInit /\ [][ExtractNext]_vars

\* --------------------------------------- build (export), then import
\* The _type values of content items below the course.
Types == {"menu", "page", "article", "component"}

\* The store id of the course, and the store id the import generates for the
\* package item lid (a new id, whatever the id of the exported item was).
CourseOid == NewOid(CourseLid)
ImportedOid(lid) == NewOid(lid) + OidBase

\* A component plugin's targetAttribute without its leading underscore
\* (targetAttribute.slice(1)): never the plugin's name.
AttrBase == 300
AttrKey(p) == AttrBase + p

\* const type = i._type === 'page' || i._type === 'menu' ? 'contentObject' : i._type
Bucket(type) == IF type \in {"page", "menu"} THEN "contentObject" ELSE type

\* The index in items of the item with the store id oid, 0 when there is none
\* (coMap[oid] undefined).
CoMap(items, oid) ==
  IF \E k \in DOMAIN items : items[k].oid = oid
  THEN CHOOSE k \in DOMAIN items : items[k].oid = oid
  ELSE 0

\* createIdMap and the lookup this.idMap[id] || id of transformContentItems.
BuildIdMapGet(items, oid) ==
  IF oid = CourseOid THEN CourseLid
  ELSE IF CoMap(items, oid) # 0 THEN items[CoMap(items, oid)].lid
  ELSE oid

\* The number of four-character groups of a sort key: padEnd(64, '0').
KeyGroups == 16

\* The for loop of sortContentItems: the _sortOrder of the item and of each of
\* its ancestors, the course ('1') first, one group of four characters each.
RECURSIVE SortOrderPath(_, _)
SortOrderPath(items, oid) ==
  IF oid = CourseOid THEN <<1>>
  ELSE IF CoMap(items, oid) = 0 THEN <<>>
  ELSE SortOrderPath(items, items[CoMap(items, oid)].parentOid)
         \o <<items[CoMap(items, oid)].sortOrder>>

\* A mutant of SortKey: the key is made of the item's own _sortOrder, without
\* those of its ancestors.
SortKeyOwn(items, k) ==
  [g \in 1..KeyGroups |-> IF g = 1 THEN 1 ELSE IF g = 2 THEN items[k].sortOrder ELSE 0]

\* sortOrder.padEnd(64, '0')
SortKey(items, k) ==
  LET path == SortOrderPath(items, items[k].oid)
  IN [g \in 1..KeyGroups |-> IF g <= Len(path) THEN path[g] ELSE 0]

\* String comparison of two keys of equal length (Object.keys(data).sort()).
KeyLess(a, b) ==
  \E g \in 1..KeyGroups : a[g] < b[g] /\ \A h \in 1..(g - 1) : a[h] = b[h]

\* sorted[type][key] = i for every item in turn (a later item replaces an
\* earlier one under the same key), then the items in the order of their keys.
SortContentItems(items, b) ==
  LET members == {k \in DOMAIN items : Bucket(items[k].type) = b}
      keys == {SortKey(items, k) : k \in members}
      holder(key) == CHOOSE k \in members :
                       /\ SortKey(items, k) = key
                       /\ \A j \in members : SortKey(items, j) = key => j <= k
      rank(key) == Cardinality({x \in keys : KeyLess(x, key)}) + 1
  IN [r \in 1..Cardinality(keys) |->
        items[holder(CHOOSE key \in keys : rank(key) = r)]]

\* transformContentItems: _friendlyId becomes _id, _parentId is looked up in
\* the id map, _component becomes the plugin's attribute key.
TransformContentItem(items, it) ==
  [id |-> it.lid,
   parentId |-> BuildIdMapGet(items, it.parentOid),
   type |-> it.type,
   sortOrder |-> it.sortOrder,
   component |-> IF it.component # Undefined THEN AttrKey(it.component) ELSE Undefined]

\* An asset document as writeContentJson adds it to assets.json: it has an
\* _id, and neither _parentId nor _type.
AssetDoc(a) ==
  [id |-> AssetId(a), parentId |-> Undefined, type |-> "none",
   sortOrder |-> Undefined, component |-> Undefined]

\* The arrays writeContentJson writes for an export: one file for each type
\* held in courseData, and assets.json when the course uses assets.
ContentFiles == {"contentObject", "article", "component"}
WriteContentJson(items, assets) ==
  [f \in ContentFiles \cup (IF assets # {} THEN {"assets"} ELSE {}) |->
     IF f = "assets"
     THEN LET q == CHOOSE q \in Perms(assets) : TRUE
          IN [k \in DOMAIN q |-> AssetDoc(q[k])]
     ELSE LET sorted == SortContentItems(items, f)
          IN [k \in DOMAIN sorted |-> TransformContentItem(items, sorted[k])]]

\* loadContentFile for every file in the order the reads complete: the items
\* of each array are added to contentJson.contentObjects under their _id.
RECURSIVE LoadContentFiles(_, _, _)
LoadContentFiles(files, order, i) ==
  IF i > Len(order) THEN <<>>
  ELSE files[order[i]] \o LoadContentFiles(files, order, i + 1)

\* this.componentNameMap[key]: the name of the plugin with the attribute key.
\* The map is filled at the end of importCoursePlugins, and is empty when
\* importCoursePlugins was not called.
ComponentNameMapGet(key, st) ==
  IF st.importPlugins /\ \E p \in Plugins : AttrKey(p) = key
  THEN CHOOSE p \in Plugins : AttrKey(p) = key
  ELSE Undefined

\* The document importContentObject inserts for a sorted package item.
ImportedDoc(co, h, st) ==
  [lid |-> co.id,
   oid |-> ImportedOid(co.id),
   parentId |-> ImportedOid(co.parentId),
   type |-> co.type,
   sortOrder |-> SortOrderOf(h, co),
   component |-> IF co.type = "component" THEN ComponentNameMapGet(co.component, st)
                 ELSE co.component]

\* The sibling _sortOrder values of a stored course: 1..k among the k children
\* of each parent.
DenseSortOrders(n, par, so) ==
  \A k \in 1..n :
    LET sibs == {j \in 1..n : par[j] = par[k]}
    IN {so[j] : j \in sibs} = 1..Cardinality(sibs) 

\* A course is in the store: n items, each the child of the course or of an
\* earlier item, siblings of types that share a file, components naming an
\* installed plugin. An import of its export is constructed with
\* importContent true.
TripInit ==
  /\ \E n \in 0..MaxItems :
       \E par \in [1..n -> 0..n], so \in [1..n -> 1..n], typ \in [1..n -> Types] :
         /\ \A k \in 1..n : par[k] < k
         /\ DenseSortOrders(n, par, so)
         /\ \A j, k \in 1..n : par[j] = par[k] => Bucket(typ[j]) = Bucket(typ[k])
         /\ \E comp \in [1..n -> Plugins] :
              tStore = [k \in 1..n |->
                          [oid |-> NewOid(k), lid |-> k, type |-> typ[k],
                           parentOid |-> NewOid(par[k]), sortOrder |-> so[k],
                           component |-> IF typ[k] = "component" THEN comp[k]
                                         ELSE Undefined]]
  /\ tAssets \in SUBSET Assets
  /\ tFiles = <<>>
  /\ tDocs = {}
  /\ tPc = "stored"
  /\ settings \in [importContent : {TRUE}, importPlugins : BOOLEAN, updatePlugins : {FALSE}]
  /\ registry0 = [p \in Plugins |-> "current"]
  /\ registry = registry0
  /\ pkg = NoPkg
  /\ used = {}
  /\ cos = <<>>
  /\ sortSt = SortStart(CourseLid)
  /\ pc = "prepare"
  /\ error = "none"
  /\ errorData = {}
  /\ log = <<>>
  /\ contentStore = {}
  /\ nextOid = 0
  /\ idMap = [k \in IdKeys |-> Undefined]
  /\ itemPc = [i \in Items |-> "idle"]
  /\ itemData = [i \in Items |-> [parentId |-> Undefined, courseId |-> Undefined,
                                  sortOrder |-> Undefined, oid |-> Undefined]]
  /\ levelIdx = 0
  /\ errs = {}
  /\ assetStore = {}
  /\ assetMap = {}
  /\ newPlugins = {}
  /\ installCalls = {}
  /\ dirExists = TRUE
  /\ cleanUps = 0
  /\ cleanThrew = FALSE
  /\ callFailed = FALSE
  /\ result = "pending"
  /\ ExtractIdle
  /\ BuildIdle
  /\ ResolveIdle
  /\ MigrateIdle
  /\ DefaultsIdle
  /\ MoreIdle

\* AdaptFrameworkBuild with action export: loadCourseData (createIdMap,
\* sortContentItems, transformContentItems) and writeContentJson.
TripBuild ==
  /\ tPc = "stored"
  /\ tFiles' = WriteContentJson(tStore, tAssets)
  /\ tPc' = "built"
  /\ UNCHANGED <<sortVars, runVars, moreVars, resolveVars, migrateVars, defaultsVars, extractVars, buildVars, tStore, tAssets, tDocs>>

\* The import's loadCourseData: the JSON files of the course folder are read
\* concurrently and their arrays added in the order the reads complete.
TripLoad ==
  /\ tPc = "built"
  /\ \E order \in Perms({f \in DOMAIN tFiles : tFiles[f] # <<>>}) :
       cos' = LoadContentFiles(tFiles, order, 1)
  /\ tPc' = "loaded"
  /\ UNCHANGED <<sortSt, runVars, moreVars, resolveVars, migrateVars, defaultsVars, extractVars, buildVars, tStore, tAssets, tFiles, tDocs>>

\* importCourseData: getSortedData.
TripSort ==
  /\ tPc = "loaded"
  /\ sortSt' = GetSortedData(cos, CourseLid)
  /\ tPc' = IF sortSt'.status = "thrown" THEN "failed" ELSE "sorted"
  /\ UNCHANGED <<cos, runVars, moreVars, resolveVars, migrateVars, defaultsVars, extractVars, buildVars, tStore, tAssets, tFiles, tDocs>>

\* importCourseData: the level loop, every insert succeeding.
TripImport ==
  /\ tPc = "sorted"
  /\ tDocs' = {ImportedDoc(cos[k], sortSt.hierarchy, settings) : k \in DOMAIN cos}
  /\ tPc' = "imported"
  /\ UNCHANGED <<sortVars, runVars, moreVars, resolveVars, migrateVars, defaultsVars, extractVars, buildVars, tStore, tAssets, tFiles>>

TripNext == TripBuild \/ TripLoad \/ TripSort \/ TripImport

TripSpec == TripInit /\ [][TripNext]_vars

\* ------------------------------------------------------------- build runs
\* Number of builds started in a run of the model.
MaxBuilds == 2

Actions == {"preview", "publish", "export"}
Users == {1, 2}

\* The other job slot.
Other(b) == CHOOSE o \in Builders : o # b
Running(j) == j.pc \notin {"idle", "done", "failed"}

\* const query = { action: this.action, createdBy: this.userId }
MatchesQuery(r, j) == r.action = j.action /\ r.createdBy = j.createdBy

\* A mutant of CourseFound: a build goes on without its course.
CourseFoundAlways(j) == TRUE

\* const [course] = await content.find(...); if (!course) throw NOT_FOUND
CourseFound(j) == j.courseExists

\* A mutant of CopiesDone: build() goes on when the first copy has resolved.
CopiesDoneFirst(j) == j.copied # {}

\* await Promise.all([copyAssets(), copySource()]) has resolved.
CopiesDone(j) == j.copied = {"assets", "source"}

\* A mutant of IsExport: the compiler is run for every action.
IsExportNever(a) == FALSE

\* this.isExport = action === 'export'
IsExport(a) == a = "export"

\* The items of the course in the content store when the builds are run: a
\* page, or a page and an article in it.
BuildContents ==
  {[k \in 1..n |-> [oid |-> NewOid(k), lid |-> k,
                    type |-> IF k = 1 THEN "page" ELSE "article",
                    parentOid |-> NewOid(k - 1), sortOrder |-> 1,
                    component |-> Undefined]] : n \in 1..2}

\* content.find(...): the documents read from the store, in memory.
ContentFind(store) == store

\* A mutant of ContentAfterTransform: the transformed items replace the stored.
ContentWrittenBack(store, transformed) == transformed

\* The content collection once transformContentItems has assigned to the found
\* documents: build() calls no insert, update, replace or delete of content.
ContentAfterTransform(store, transformed) == store

\* build() throws e out of job slot b.
BuildFail(b, e, data) ==
  /\ job' = [job EXCEPT ![b].pc = "failed", ![b].error = e, ![b].errorData = data]
  /\ builds' = [builds EXCEPT ![job[b].id].status = "failed"]

\* build() goes on to pc, having finished the step named by event.
BuildStep(b, pcNext, event) ==
  /\ job' = [job EXCEPT ![b].pc = pcNext, ![b].log = Append(@, event)]
  /\ builds' = builds

\* AdaptFrameworkBuild.run(options): the instance is constructed and build()
\* called; this.dir is named after the time of the call. A run takes the
\* first job slot unless a build is running in it.
BuildRun(b) ==
  /\ ~Running(job[b])
  /\ b = 2 => Running(job[1])
  /\ Len(builds) < MaxBuilds
  /\ \E a \in Actions, u \in Users, exists \in BOOLEAN :
       /\ job' = [job EXCEPT ![b] =
                    [NoJob EXCEPT !.pc = "find", !.id = Len(builds) + 1, !.action = a,
                                  !.createdBy = u, !.courseExists = exists]]
       /\ builds' = Append(builds, [action |-> a, createdBy |-> u, status |-> "running"])
  /\ overlap' = (overlap \/ Running(job[Other(b)]))
  /\ UNCHANGED <<sortVars, runVars, moreVars, resolveVars, migrateVars, defaultsVars, extractVars, tripVars, bRecords, bOut>>

\* removeOldBuilds: mongodb.find(this.collectionName, query).
RemoveOldFind(b) ==
  /\ job[b].pc = "find"
  /\ job' = [job EXCEPT ![b].pc = "remove",
                        ![b].oldBuilds = {r \in bRecords : MatchesQuery(r, job[b])}]
  /\ UNCHANGED <<sortVars, runVars, moreVars, resolveVars, migrateVars, defaultsVars, extractVars, tripVars, bRecords, bOut, builds, overlap>>

\* removeOldBuilds: Promise.all(oldBuilds.map(b => fs.remove(b.location))). When
\* a remove rejects, the others may or may not have removed their location.
RemoveOldFiles(b) ==
  /\ job[b].pc = "remove"
  /\ LET locations == {r.id : r \in job[b].oldBuilds}
     IN \/ /\ bOut' = bOut \ locations
           /\ job' = [job EXCEPT ![b].pc = "deleteMany"]
           /\ builds' = builds
        \/ /\ locations # {}
           /\ \E removed \in SUBSET locations :
                /\ removed # locations
                /\ bOut' = bOut \ removed
           /\ BuildFail(b, "IOError", "none")
  /\ UNCHANGED <<sortVars, runVars, moreVars, resolveVars, migrateVars, defaultsVars, extractVars, tripVars, bRecords, overlap>>

\* A mutant of RemoveOldRecords: the records of the query are kept.
RemoveOldRecordsKept(b) ==
  /\ job[b].pc = "deleteMany"
  /\ job' = [job EXCEPT ![b].pc = "load"]
  /\ UNCHANGED <<sortVars, runVars, moreVars, resolveVars, migrateVars, defaultsVars, extractVars, tripVars, bRecords, bOut, builds, overlap>>

\* removeOldBuilds: mongodb.deleteMany(this.collectionName, query).
RemoveOldRecords(b) ==
  /\ job[b].pc = "deleteMany"
  /\ bRecords' = {r \in bRecords : ~MatchesQuery(r, job[b])}
  /\ job' = [job EXCEPT ![b].pc = "load"]
  /\ UNCHANGED <<sortVars, runVars, moreVars, resolveVars, migrateVars, defaultsVars, extractVars, tripVars, bOut, builds, overlap>>

\* The build directories are made and loadCourseData is awaited: NOT_FOUND when
\* content.find returns no course, an error of cachePluginData, or the course
\* data loaded and transformed.
BuildLoadCourseData(b) ==
  /\ job[b].pc = "load"
  /\ \/ ~CourseFound(job[b]) /\ BuildFail(b, "NOT_FOUND", "course") /\ tStore' = tStore
     \/ /\ CourseFound(job[b])
        /\ BuildFail(b, "FW_MISSING_PLUGIN_DEP", "none")
        /\ tStore' = tStore
     \/ /\ CourseFound(job[b])
        /\ LET found == ContentFind(tStore)
               transformed == [k \in DOMAIN found |-> TransformContentItem(found, found[k])]
           IN /\ job' = [job EXCEPT ![b].pc = "copy",
                                    ![b].log = Append(@, "loadCourseData"),
                                    ![b].items = transformed]
              /\ tStore' = ContentAfterTransform(tStore, transformed)
        /\ builds' = builds
  /\ UNCHANGED <<sortVars, runVars, moreVars, resolveVars, migrateVars, defaultsVars, extractVars, tAssets, tFiles, tDocs, tPc,
                 bRecords, bOut, overlap>>

\* One of the two calls of Promise.all([copyAssets(), copySource()]) resolves.
CopyAssets(b) ==
  /\ job[b].pc = "copy"
  /\ "assets" \notin job[b].copied
  /\ job' = [job EXCEPT ![b].copied = @ \cup {"assets"}]
  /\ UNCHANGED <<sortVars, runVars, moreVars, resolveVars, migrateVars, defaultsVars, extractVars, tripVars, bRecords, bOut, builds, overlap>>

CopySource(b) ==
  /\ job[b].pc = "copy"
  /\ "source" \notin job[b].copied
  /\ job' = [job EXCEPT ![b].copied = @ \cup {"source"}]
  /\ UNCHANGED <<sortVars, runVars, moreVars, resolveVars, migrateVars, defaultsVars, extractVars, tripVars, bRecords, bOut, builds, overlap>>

\* One of the two calls rejects: Promise.all rejects and build() throws.
CopyRejected(b) ==
  /\ job[b].pc = "copy"
  /\ ~CopiesDone(job[b])
  /\ BuildFail(b, "CopyError", "none")
  /\ UNCHANGED <<sortVars, runVars, moreVars, resolveVars, migrateVars, defaultsVars, extractVars, tripVars, bRecords, bOut, overlap>>

\* Both copies have resolved: the pre-build hooks, then writeContentJson
\* (WriteError stands for a hook or a write that rejects).
BuildWriteContentJson(b) ==
  /\ job[b].pc = "copy"
  /\ CopiesDone(job[b])
  /\ \/ BuildFail(b, "WriteError", "none")
     \/ BuildStep(b, IF IsExport(job[b].action) THEN "package" ELSE "compile",
                  "writeContentJson")
  /\ UNCHANGED <<sortVars, runVars, moreVars, resolveVars, migrateVars, defaultsVars, extractVars, tripVars, bRecords, bOut, overlap>>

\* if (!this.isExport): AdaptCli.buildCourse, once; its rejection is thrown
\* as FW_CLI_BUILD_FAILED with cmd and stderr as data.
BuildCourse(b) ==
  /\ job[b].pc = "compile"
  /\ \/ /\ job' = [job EXCEPT ![b].pc = "package", ![b].compiles = @ + 1,
                              ![b].log = Append(@, "buildCourse")]
        /\ builds' = builds
     \/ /\ job' = [job EXCEPT ![b].pc = "failed", ![b].compiles = @ + 1,
                              ![b].error = "FW_CLI_BUILD_FAILED", ![b].errorData = "stderr"]
        /\ builds' = [builds EXCEPT ![job[b].id].status = "failed"]
  /\ UNCHANGED <<sortVars, runVars, moreVars, resolveVars, migrateVars, defaultsVars, extractVars, tripVars, bRecords, bOut, overlap>>

\* createPreview or createZip: this.location holds the output.
CreateOutput(b) ==
  /\ job[b].pc = "package"
  /\ \/ /\ BuildStep(b, "record", IF job[b].action = "preview" THEN "createPreview"
                                  ELSE "createZip")
        /\ bOut' = bOut \cup {job[b].id}
     \/ BuildFail(b, "PackageError", "none") /\ bOut' = bOut
  /\ UNCHANGED <<sortVars, runVars, moreVars, resolveVars, migrateVars, defaultsVars, extractVars, tripVars, bRecords, overlap>>

\* The post-build hooks, then recordBuildAttempt: the record is validated and
\* inserted into adaptbuilds (RecordError stands for a hook, the validation or
\* the insert rejecting).
RecordBuildAttempt(b) ==
  /\ job[b].pc = "record"
  /\ \/ /\ bRecords' = bRecords \cup {[id |-> job[b].id, action |-> job[b].action,
                                       createdBy |-> job[b].createdBy]}
        /\ job' = [job EXCEPT ![b].pc = "done", ![b].log = Append(@, "recordBuildAttempt")]
        /\ builds' = [builds EXCEPT ![job[b].id].status = "done"]
     \/ BuildFail(b, "RecordError", "none") /\ bRecords' = bRecords
  /\ UNCHANGED <<sortVars, runVars, moreVars, resolveVars, migrateVars, defaultsVars, extractVars, tripVars, bOut, overlap>>

BuildInit ==
  /\ cos = <<>>
  /\ sortSt = SortStart(CourseLid)
  /\ RunIdle
  /\ ExtractIdle
  /\ tStore \in BuildContents
  /\ tAssets = {}
  /\ tFiles = <<>>
  /\ tDocs = {}
  /\ tPc = "idle"
  /\ BuildIdle
  /\ ResolveIdle
  /\ MigrateIdle
  /\ DefaultsIdle
  /\ MoreIdle

BuildNext ==
  \E b \in Builders :
    \/ BuildRun(b)
    \/ RemoveOldFind(b)
    \/ RemoveOldFiles(b)
    \/ RemoveOldRecords(b)
    \/ BuildLoadCourseData(b)
    \/ CopyAssets(b)
    \/ CopySource(b)
    \/ CopyRejected(b)
    \/ BuildWriteContentJson(b)
    \/ BuildCourse(b)
    \/ CreateOutput(b)
    \/ RecordBuildAttempt(b)

BuildSpec == BuildInit /\ [][BuildNext]_vars

\* ------------------------------------------------- cachePluginData, copySource
\* The plugin names that occur: the registry's and those a course refers to.
MaxRegistry == 3
RegNames == 1..MaxRegistry

\* The version of every registered plugin, and the ranges a dependency map
\* asks for (NoRange: the map has no entry for the name).
InstalledVersion == 1
NoRange == 0
Ranges == {1, 2}

\* semver.satisfies(p.version, version), for the ranges '>=1' and '>=2'.
RangeSatisfied(v, range) == v >= range

\* all[name] of a name the registry does not hold (undefined).
NoPlugin == [present |-> FALSE, version |-> 0, deps |-> [n \in RegNames |-> NoRange]]

\* The registry entries a name can have: none, or a plugin whose
\* pluginDependencies name plugins that came before it (no plugin depends on
\* itself through others).
EntriesOf(k) ==
  {NoPlugin} \cup
    {[present |-> TRUE, version |-> InstalledVersion, deps |-> d] :
       d \in {e \in [RegNames -> {NoRange} \cup Ranges] :
                \A j \in RegNames : e[j] # NoRange => j < k}}

RECURSIVE Registries(_)
Registries(k) ==
  IF k = 0 THEN {<<>>}
  ELSE {Append(r, e) : r \in Registries(k - 1), e \in EntriesOf(k)}

\* The sequence of the members of S in the order ord lists them.
RECURSIVE InOrder(_, _, _)
InOrder(S, ord, i) ==
  IF i > Len(ord) THEN <<>>
  ELSE (IF ord[i] \in S THEN <<ord[i]>> ELSE <<>>) \o InOrder(S, ord, i + 1)

\* The orders the entries of the dependency maps are taken in: by name, upwards
\* or downwards (any two entries of a map come in either order).
MapOrders ==
  {[i \in RegNames |-> i], [i \in RegNames |-> MaxRegistry + 1 - i]}

\* Object.entries(p.pluginDependencies ?? {}): the names, in the map's order.
DepEntries(all, name, ord) ==
  InOrder({n \in RegNames : all[name].deps[n] # NoRange}, ord, 1)

\* _cachePluginDeps(p, memo): st is [memo, error]; the forEach goes through the
\* entries from the i-th on and stops at the first throw.
RECURSIVE CachePluginDepsFrom(_, _, _, _, _)
CachePluginDepsFrom(all, name, ord, i, st) ==
  LET entries == DepEntries(all, name, ord)
  IN IF st.error.kind # "none" \/ i > Len(entries) THEN st
     ELSE LET d == entries[i]
              range == all[name].deps[d]
          IN IF ~all[d].present
             THEN [st EXCEPT !.error = [kind |-> "FW_MISSING_PLUGIN_DEP", name |-> d]]
             ELSE IF ~RangeSatisfied(all[d].version, range)
             THEN [st EXCEPT !.error = [kind |-> "FW_INCOMPAT_PLUGIN_DEP", name |-> d]]
             ELSE IF d \in st.memo
             THEN CachePluginDepsFrom(all, name, ord, i + 1, st)
             ELSE LET inner == CachePluginDepsFrom(all, d, ord, 1, st)
                  IN CachePluginDepsFrom(all, name, ord, i + 1,
                       IF inner.error.kind = "none"
                       THEN [inner EXCEPT !.memo = @ \cup {d}]
                       ELSE inner)

CachePluginDeps(all, name, ord) ==
  CachePluginDepsFrom(all, name, ord, 1,
                      [memo |-> {}, error |-> [kind |-> "none", name |-> 0]])

\* The reduce over config._enabledPlugins, from the i-th name of the list on:
\* [enabled, error]. For a name the registry does not hold p is undefined and
\* p.pluginDependencies throws a TypeError.
RECURSIVE EnabledFrom(_, _, _, _, _)
EnabledFrom(all, list, ord, i, acc) ==
  IF acc.error.kind # "none" \/ i > Len(list) THEN acc
  ELSE LET name == list[i]
       IN IF ~all[name].present
          THEN [acc EXCEPT !.error = [kind |-> "TypeError", name |-> name]]
          ELSE LET deps == CachePluginDeps(all, name, ord)
               IN EnabledFrom(all, list, ord, i + 1,
                    IF deps.error.kind = "none"
                    THEN [acc EXCEPT !.enabled = @ \cup {name} \cup deps.memo]
                    ELSE [acc EXCEPT !.error = deps.error])

\* A mutant of Partition: the names before the first listed one are enabled too.
PartitionAfterFirst(registered, enabled, list) ==
  LET on == {n \in registered :
               n \in enabled \/ (list # <<>> /\ n < list[1] /\ enabled # {})}
  IN [enabledPlugins |-> on, disabledPlugins |-> registered \ on]

\* Object.entries(all).forEach(([name, p]) => (enabled[name] ? this.enabledPlugins
\* : this.disabledPlugins).push(p))
Partition(registered, enabled, list) ==
  [enabledPlugins |-> {n \in registered : n \in enabled},
   disabledPlugins |-> {n \in registered : n \notin enabled}]

\* cachePluginData: the error thrown, or the names pushed to enabledPlugins
\* and to disabledPlugins, which start empty.
CachePluginDataResult(all, list, ord) ==
  LET r == EnabledFrom(all, list, ord, 1,
                       [enabled |-> {}, error |-> [kind |-> "none", name |-> 0]])
      registered == {n \in RegNames : all[n].present}
  IN IF r.error.kind # "none"
     THEN [error |-> r.error, enabledPlugins |-> {}, disabledPlugins |-> {}]
     ELSE [error |-> r.error] @@ Partition(registered, r.enabled, list)

\* A mutant of Blacklist: no plugin directory is left out.
BlacklistFixed(disabled) == {}

\* const blacklist = [..., ...this.disabledPlugins.map(p => p.name)], the
\* plugin names of it.
Blacklist(disabled) == disabled

\* A build instance has loaded the config of a course; the registry holds some
\* of the names.
ResolveInit ==
  /\ cos = <<>>
  /\ sortSt = SortStart(CourseLid)
  /\ RunIdle
  /\ ExtractIdle
  /\ TripIdle
  /\ BuildIdle
  /\ MigrateIdle
  /\ DefaultsIdle
  /\ MoreIdle
  /\ rAll \in Registries(MaxRegistry)
  /\ rNames \in SUBSET RegNames
  /\ rPc = "config"
  /\ rEnabled = {}
  /\ rDisabled = {}
  /\ rError = [kind |-> "none", name |-> 0]
  /\ rCopied = {}

\* cachePluginData, for the order of config._enabledPlugins and of the
\* dependency maps.
CachePluginData ==
  /\ rPc = "config"
  /\ \E list \in Perms(rNames), ord \in MapOrders :
       LET r == CachePluginDataResult(rAll, list, ord)
       IN /\ rError' = r.error
          /\ rEnabled' = rEnabled \cup r.enabledPlugins
          /\ rDisabled' = rDisabled \cup r.disabledPlugins
          /\ rPc' = IF r.error.kind = "none" THEN "resolved" ELSE "failed"
  /\ UNCHANGED <<sortVars, runVars, moreVars, extractVars, tripVars, buildVars, migrateVars, defaultsVars, rAll, rNames, rCopied>>

\* copySource: the framework's plugin directories whose name the filter lets
\* through.
ResolveCopySource ==
  /\ rPc = "resolved"
  /\ rCopied' = {n \in RegNames : rAll[n].present /\ n \notin Blacklist(rDisabled)}
  /\ rPc' = "copied"
  /\ UNCHANGED <<sortVars, runVars, moreVars, extractVars, tripVars, buildVars, migrateVars, defaultsVars, rAll, rNames,
                 rEnabled, rDisabled, rError>>

ResolveNext == CachePluginData \/ ResolveCopySource

ResolveSpec == ResolveInit /\ [][ResolveNext]_vars

\* ------------------------------------------------------------ transformData
\* The name of the plugin the test data._component === 'graphic' is about.
GraphicName == 1

\* A _component key no registered plugin has as its attribute.
UnknownKey == AttrKey(MaxPlugins + 1)

\* The items transformData is given: _type, _parentId, _component (an attribute
\* key in a package), _playerOptions ('' is 0), and _graphic with its src and
\* its large when the item has one (small is assigned whatever large is).
MigrateItems ==
  [type : {"page", "article", "component"},
   parentId : {Undefined, CourseLid} \cup Items,
   component : {Undefined, UnknownKey} \cup {AttrKey(p) : p \in Plugins},
   playerOptions : {Undefined, 0, 1},
   hasGraphic : BOOLEAN,
   src : {Undefined, 1},
   large : {Undefined, 2}]

\* ComponentTransform, as called with the data alone: an empty _playerOptions
\* of a component is deleted.
ComponentTransform(data) ==
  IF data.type = "component" /\ data.playerOptions = 0
  THEN [data EXCEPT !.playerOptions = Undefined]
  ELSE data

\* transformData: [error, data].
TransformData(data, map, st) ==
  LET d1 == [data EXCEPT !.parentId = TransformParentId(data.parentId, map)]
      d2 == IF d1.type = "component"
            THEN [d1 EXCEPT !.component = ComponentNameMapGet(d1.component, st)]
            ELSE d1
  IN IF d2.component = GraphicName /\ ~d2.hasGraphic
     THEN [error |-> "TypeError", data |-> d2]
     ELSE LET d3 == IF d2.component = GraphicName /\ d2.src # Undefined
                    THEN [d2 EXCEPT !.large = d2.src]
                    ELSE d2
          IN [error |-> "none", data |-> ComponentTransform(d3)]

\* An import has mapped the course and some items of the package; an item of
\* the package is about to be transformed.
MigrateInit ==
  /\ \E mapped \in SUBSET Items :
       idMap = [k \in IdKeys |-> IF k \in mapped \cup {CourseLid, CourseKey}
                                 THEN NewOid(k) ELSE Undefined]
  /\ mIn \in {it \in MigrateItems : ~it.hasGraphic => it.src = Undefined /\ it.large = Undefined}
  /\ mOnce = <<>>
  /\ mOut = mIn
  /\ mRuns = 0
  /\ mError = "none"
  /\ settings \in [importContent : {TRUE}, importPlugins : BOOLEAN, updatePlugins : {FALSE}]
  /\ registry0 = [p \in Plugins |-> "current"]
  /\ registry = registry0
  /\ pkg = [major |-> FrameworkMajor, minor |-> 0, pre |-> FALSE]
  /\ used = {}
  /\ cos = <<>>
  /\ sortSt = [SortStart(CourseLid) EXCEPT !.status = "returned"]
  /\ pc = "await"
  /\ error = "none"
  /\ errorData = {}
  /\ log = <<"prepare", "assets", "load", "plugins", "content">>
  /\ contentStore = {}
  /\ nextOid = 0
  /\ itemPc = [i \in Items |-> "idle"]
  /\ itemData = [i \in Items |-> [parentId |-> Undefined, courseId |-> Undefined,
                                  sortOrder |-> Undefined, oid |-> Undefined]]
  /\ levelIdx = 0
  /\ errs = {}
  /\ assetStore = {}
  /\ assetMap = {}
  /\ newPlugins = {}
  /\ installCalls = {}
  /\ dirExists = TRUE
  /\ cleanUps = 0
  /\ cleanThrew = FALSE
  /\ callFailed = FALSE
  /\ result = "pending"
  /\ ExtractIdle
  /\ TripIdle
  /\ BuildIdle
  /\ ResolveIdle
  /\ DefaultsIdle
  /\ MoreIdle

\* transformData is applied to the item of the package.
MigrateFirst ==
  /\ mRuns = 0
  /\ LET r == TransformData(mOut, idMap, settings)
     IN /\ mOut' = r.data
        /\ mOnce' = r.data
        /\ mError' = r.error
  /\ mRuns' = 1
  /\ UNCHANGED <<sortVars, runVars, moreVars, extractVars, tripVars, buildVars, resolveVars, defaultsVars, mIn>>

\* transformData is applied to the data it returned.
MigrateAgain ==
  /\ mRuns = 1
  /\ mError = "none"
  /\ LET r == TransformData(mOut, idMap, settings)
     IN /\ mOut' = r.data
        /\ mError' = r.error
  /\ mRuns' = 2
  /\ UNCHANGED <<sortVars, runVars, moreVars, extractVars, tripVars, buildVars, resolveVars, defaultsVars, mIn, mOnce>>

MigrateNext == MigrateFirst \/ MigrateAgain

MigrateSpec == MigrateInit /\ [][MigrateNext]_vars

\* ------------------------------------------ importCourseData: course, config
\* A document of course or config: a plain field a, an object o with a field
\* x, an array l of plain values. A field or object or array the document lacks
\* has the value Undefined or has = FALSE.
DocsWith(v) ==
  [a : {Undefined, v},
   o : [has : BOOLEAN, x : {Undefined, v}],
   l : [has : BOOLEAN, v : UNION {[1..n -> {v}] : n \in 0..MaxArrayLen}]]

\* The documents in canonical form: an object or array that is not there
\* holds nothing.
Canonical(D) == {d \in D : /\ ~d.o.has => d.o.x = Undefined
                           /\ ~d.l.has => d.l.v = <<>>}

\* The values of a package's items, and the values of schema defaults.
ItemValue == 1
DefaultValue == 2
ItemDocs == Canonical(DocsWith(ItemValue))
DefaultDocs == Canonical(DocsWith(DefaultValue))

\* _.merge of a plain source value: undefined is skipped, any other value is
\* assigned.
MergeLeaf(dst, src) == IF src = Undefined THEN dst ELSE src

\* A mutant of Merge: the defaults are merged over the data.
MergeDefaultsOver(defaults, data) ==
  [a |-> MergeLeaf(data.a, defaults.a),
   o |-> IF ~defaults.o.has THEN data.o
         ELSE [has |-> TRUE, x |-> MergeLeaf(data.o.x, defaults.o.x)],
   l |-> IF ~defaults.l.has THEN data.l
         ELSE [has |-> TRUE,
               v |-> [i \in 1..(IF Len(data.l.v) > Len(defaults.l.v)
                                THEN Len(data.l.v) ELSE Len(defaults.l.v)) |->
                        IF i <= Len(defaults.l.v) THEN defaults.l.v[i] ELSE data.l.v[i]]]]

\* _.merge(defaults, data): the fields of data are assigned into defaults,
\* objects field by field and arrays index by index.
Merge(defaults, data) ==
  [a |-> MergeLeaf(defaults.a, data.a),
   o |-> IF ~data.o.has THEN defaults.o
         ELSE [has |-> TRUE, x |-> MergeLeaf(defaults.o.x, data.o.x)],
   l |-> IF ~data.l.has THEN defaults.l
         ELSE [has |-> TRUE,
               v |-> [i \in 1..(IF Len(data.l.v) > Len(defaults.l.v)
                                THEN Len(data.l.v) ELSE Len(defaults.l.v)) |->
                        IF i <= Len(data.l.v) THEN data.l.v[i] ELSE defaults.l.v[i]]]]

\* importCourseData is called: nothing of the course is stored.
DefaultsInit ==
  /\ cos = <<>>
  /\ sortSt = SortStart(CourseLid)
  /\ RunIdle
  /\ ExtractIdle
  /\ TripIdle
  /\ BuildIdle
  /\ ResolveIdle
  /\ MigrateIdle
  /\ MoreIdle
  /\ dCourse \in ItemDocs
  /\ dConfig \in ItemDocs
  /\ dDefaults \in DefaultDocs
  /\ dStore = [course |-> <<>>, config |-> <<>>, item |-> <<>>]
  /\ dLog = <<>>
  /\ dPc = "course"

\* A store call of importCourseData rejects: importCourseData throws.
DefaultsThrow ==
  /\ dPc \in {"course", "config", "defaultsCourse", "defaultsConfig", "item"}
  /\ dPc' = "failed"
  /\ UNCHANGED <<sortVars, runVars, moreVars, extractVars, tripVars, buildVars, resolveVars,
                 migrateVars, dCourse, dConfig, dDefaults, dStore, dLog>>

\* let course = await this.importContentObject(this.contentJson.course)
DefaultsImportCourse ==
  /\ dPc = "course"
  /\ dStore' = [dStore EXCEPT !.course = <<dCourse>>]
  /\ dLog' = Append(dLog, "insert course")
  /\ dPc' = "config"
  /\ UNCHANGED <<sortVars, runVars, moreVars, extractVars, tripVars, buildVars, resolveVars,
                 migrateVars, dCourse, dConfig, dDefaults>>

\* let config = await this.importContentObject(this.contentJson.config)
DefaultsImportConfig ==
  /\ dPc = "config"
  /\ dStore' = [dStore EXCEPT !.config = <<dConfig>>]
  /\ dLog' = Append(dLog, "insert config")
  /\ dPc' = "defaultsCourse"
  /\ UNCHANGED <<sortVars, runVars, moreVars, extractVars, tripVars, buildVars, resolveVars,
                 migrateVars, dCourse, dConfig, dDefaults>>

\* course = await this.applyDefaults(course): the stored document is replaced
\* by _.merge(defaults, data), data being the document the insert returned.
DefaultsApplyCourse ==
  /\ dPc = "defaultsCourse"
  /\ dStore' = [dStore EXCEPT !.course = <<Merge(dDefaults, dStore.course[1])>>]
  /\ dLog' = Append(dLog, "replace course")
  /\ dPc' = "defaultsConfig"
  /\ UNCHANGED <<sortVars, runVars, moreVars, extractVars, tripVars, buildVars, resolveVars,
                 migrateVars, dCourse, dConfig, dDefaults>>

\* config = await this.applyDefaults(config)
DefaultsApplyConfig ==
  /\ dPc = "defaultsConfig"
  /\ dStore' = [dStore EXCEPT !.config = <<Merge(dDefaults, dStore.config[1])>>]
  /\ dLog' = Append(dLog, "replace config")
  /\ dPc' = "item"
  /\ UNCHANGED <<sortVars, runVars, moreVars, extractVars, tripVars, buildVars, resolveVars,
                 migrateVars, dCourse, dConfig, dDefaults>>

\* getSortedData, then the first importContentObject of the level loop.
DefaultsImportItem ==
  /\ dPc = "item"
  /\ \E d \in ItemDocs : dStore' = [dStore EXCEPT !.item = <<d>>]
  /\ dLog' = Append(dLog, "insert item")
  /\ dPc' = "levels"
  /\ UNCHANGED <<sortVars, runVars, moreVars, extractVars, tripVars, buildVars, resolveVars,
                 migrateVars, dCourse, dConfig, dDefaults>>

DefaultsNext ==
  \/ DefaultsThrow
  \/ DefaultsImportCourse
  \/ DefaultsImportConfig
  \/ DefaultsApplyCourse
  \/ DefaultsApplyConfig
  \/ DefaultsImportItem

DefaultsSpec == DefaultsInit /\ [][DefaultsNext]_vars

\* ------------------------------------------- asset references of a build
\* Number of fields of the content item followed through the build.
MaxFields == 2
Fields == 1..MaxFields

\* The pieces of a string value: text that is no asset id, the id of an asset
\* (asset._id.toString()), the path of an asset's file relative to the
\* package (course/assets/...), the url of a remote asset.
TextTok == [kind |-> "text", a |-> 0]
IdTok(a) == [kind |-> "id", a |-> a]
PathTok(a) == [kind |-> "path", a |-> a]
UrlTok(a) == [kind |-> "url", a |-> a]

\* The string values of a field: text, an asset id, text that contains an
\* asset id.
FieldValues ==
  {<<TextTok>>} \cup {<<IdTok(a)>> : a \in Assets} \cup {<<TextTok, IdTok(a)>> : a \in Assets}

\* A content item: for each field whether the item's schema flags it as an
\* asset, and its value.
AssetItems == [Fields -> [asset : BOOLEAN, value : FieldValues]]

\* loadAssetData: idMap[a._id] = a.url ? a.url : path.join(courseDir, 'assets', a.path)
\* for the assets of the course's courseassets records; transformContentItems
\* writes the path with courseDir replaced by 'course'.
LoadAssetData(usedAssets, remote) ==
  [a \in usedAssets |-> IF a \in remote THEN UrlTok(a) ELSE PathTok(a)]

\* s.replace(new RegExp(_id, 'g'), relPath) for every entry of the id map, on
\* the JSON string of the item: every occurrence of the id is replaced.
ReplaceIds(value, map) ==
  [k \in DOMAIN value |->
     IF value[k].kind = "id" /\ value[k].a \in DOMAIN map THEN map[value[k].a]
     ELSE value[k]]

\* transformContentItems, the asset ids: Object.assign(i, JSON.parse(itemString)).
TransformAssetIds(item, map) ==
  [f \in DOMAIN item |-> ReplaceIds(item[f].value, map)]

\* copyAssets: an asset with a url is returned from at once, the bytes of
\* every other asset of assetData.data are piped to idMap[a._id].
AssetsToCopy(usedAssets, remote) == {a \in usedAssets : a \notin remote}

\* loadCourseData has found the course; the item is one of its content items.
AssetInit ==
  /\ cos = <<>>
  /\ sortSt = SortStart(CourseLid)
  /\ RunIdle
  /\ ExtractIdle
  /\ TripIdle
  /\ BuildIdle
  /\ ResolveIdle
  /\ MigrateIdle
  /\ DefaultsIdle
  /\ StackIdle
  /\ PipeIdle
  /\ ServeIdle
  /\ PrepIdle
  /\ aItem \in AssetItems
  /\ aUsed \in SUBSET Assets
  /\ aRemote \in SUBSET aUsed
  /\ aIdMap = <<>>
  /\ aOut = <<>>
  /\ aCopied = {}
  /\ aPc = "loaded"

oldVars == <<sortVars, runVars, extractVars, tripVars, buildVars, resolveVars,
             migrateVars, defaultsVars>>

AssetLoadAssetData ==
  /\ aPc = "loaded"
  /\ aIdMap' = LoadAssetData(aUsed, aRemote)
  /\ aPc' = "assets"
  /\ UNCHANGED <<oldVars, stackVars, pipeVars, serveVars, prepVars, aItem, aUsed, aRemote, aOut, aCopied>>

AssetTransformContentItems ==
  /\ aPc = "assets"
  /\ aOut' = TransformAssetIds(aItem, aIdMap)
  /\ aPc' = "transformed"
  /\ UNCHANGED <<oldVars, stackVars, pipeVars, serveVars, prepVars, aItem, aUsed, aRemote, aIdMap, aCopied>>

AssetCopyAssets ==
  /\ aPc = "transformed"
  /\ aCopied' = AssetsToCopy(aUsed, aRemote)
  /\ aPc' = "copied"
  /\ UNCHANGED <<oldVars, stackVars, pipeVars, serveVars, prepVars, aItem, aUsed, aRemote, aIdMap, aOut>>

AssetNext == AssetLoadAssetData \/ AssetTransformContentItems \/ AssetCopyAssets

AssetSpec == AssetInit /\ [][AssetNext]_vars

\* ------------------------------------------ _cachePluginDeps, call by call
\* The number of nested calls the call stack of the runtime holds: one more
\* throws a RangeError.
MaxStack == 4

\* Registries whose plugins are all installed, with any dependency maps: a
\* plugin can require itself, and two plugins each other. Every range is
\* satisfied.
CyclicRegistries ==
  [RegNames -> {[present |-> TRUE, version |-> InstalledVersion, deps |-> d] :
                  d \in [RegNames -> {NoRange, InstalledVersion}]}]

\* Object.entries goes through a map in the order the keys were added.
KeyOrder == [i \in RegNames |-> i]

\* cachePluginData is at the reduce, for a config that enables one plugin.
StackInit ==
  /\ cos = <<>>
  /\ sortSt = SortStart(CourseLid)
  /\ RunIdle
  /\ ExtractIdle
  /\ TripIdle
  /\ BuildIdle
  /\ MigrateIdle
  /\ DefaultsIdle
  /\ AssetIdle
  /\ PipeIdle
  /\ ServeIdle
  /\ PrepIdle
  /\ rAll \in CyclicRegistries
  /\ \E n \in RegNames : rNames = {n}
  /\ rPc = "config"
  /\ rEnabled = {}
  /\ rDisabled = {}
  /\ rError = [kind |-> "none", name |-> 0]
  /\ rCopied = {}
  /\ cStack = <<>>
  /\ cMemo = {}
  /\ cCount = [n \in RegNames |-> 0]

stackRest == <<sortVars, runVars, extractVars, tripVars, buildVars, migrateVars,
               defaultsVars, assetVars, pipeVars, serveVars, prepVars, rAll, rNames, rEnabled, rDisabled,
               rCopied>>

\* _cachePluginDeps(p) is called for the listed plugin, with a fresh memo.
StackCall ==
  /\ rPc = "config"
  /\ \E n \in rNames :
       /\ cStack' = <<[name |-> n, i |-> 1]>>
       /\ cCount' = [cCount EXCEPT ![n] = @ + 1]
  /\ cMemo' = {}
  /\ rPc' = "deps"
  /\ UNCHANGED <<stackRest, rError>>

\* The forEach of the innermost call takes its next entry: the dependency is
\* tested, and unless memo holds it _cachePluginDeps is called for it.
StackEntry ==
  /\ rPc = "deps"
  /\ LET top == cStack[Len(cStack)]
         entries == DepEntries(rAll, top.name, KeyOrder)
     IN /\ top.i <= Len(entries)
        /\ LET d == entries[top.i]
           IN IF ~rAll[d].present
              THEN /\ rError' = [kind |-> "FW_MISSING_PLUGIN_DEP", name |-> d]
                   /\ rPc' = "failed"
                   /\ UNCHANGED <<cStack, cMemo, cCount>>
              ELSE IF ~RangeSatisfied(rAll[d].version, rAll[top.name].deps[d])
              THEN /\ rError' = [kind |-> "FW_INCOMPAT_PLUGIN_DEP", name |-> d]
                   /\ rPc' = "failed"
                   /\ UNCHANGED <<cStack, cMemo, cCount>>
              ELSE IF d \in cMemo
              THEN /\ cStack' = [cStack EXCEPT ![Len(cStack)].i = @ + 1]
                   /\ UNCHANGED <<cMemo, cCount, rPc, rError>>
              ELSE IF Len(cStack) = MaxStack
              THEN /\ rError' = [kind |-> "RangeError", name |-> d]
                   /\ rPc' = "failed"
                   /\ UNCHANGED <<cStack, cMemo, cCount>>
              ELSE /\ cStack' = Append(cStack, [name |-> d, i |-> 1])
                   /\ cCount' = [cCount EXCEPT ![d] = @ + 1]
                   /\ UNCHANGED <<cMemo, rPc, rError>>
  /\ UNCHANGED stackRest

\* The forEach of the innermost call is through: the call returns memo, and
\* its caller sets memo[name] = p and goes on to its next entry.
StackReturn ==
  /\ rPc = "deps"
  /\ LET top == cStack[Len(cStack)]
     IN /\ top.i > Len(DepEntries(rAll, top.name, KeyOrder))
        /\ IF Len(cStack) = 1
           THEN /\ cStack' = <<>>
                /\ rPc' = "resolved"
                /\ UNCHANGED cMemo
           ELSE /\ cStack' = [SubSeq(cStack, 1, Len(cStack) - 1)
                                EXCEPT ![Len(cStack) - 1].i = @ + 1]
                /\ cMemo' = cMemo \cup {top.name}
                /\ UNCHANGED rPc
  /\ UNCHANGED <<stackRest, cCount, rError>>

StackNext == StackCall \/ StackEntry \/ StackReturn

StackSpec == StackInit /\ [][StackNext]_vars

\* ------------------------------------------------ copyAssets, stream by stream
\* Number of assets of assetData.data.
MaxCopies == 2
Copies == 1..MaxCopies

\* copyAssets has mapped assetData.data: for an asset with a url the call has
\* returned; for every other asset the read stream is piped to the write
\* stream and the call's promise is pending.
PipeInit ==
  /\ cos = <<>>
  /\ sortSt = SortStart(CourseLid)
  /\ RunIdle
  /\ ExtractIdle
  /\ TripIdle
  /\ BuildIdle
  /\ ResolveIdle
  /\ MigrateIdle
  /\ DefaultsIdle
  /\ AssetIdle
  /\ StackIdle
  /\ ServeIdle
  /\ PrepIdle
  /\ \E remote \in SUBSET Copies :
       /\ pIn = [a \in Copies |-> IF a \in remote THEN "none" ELSE "open"]
       /\ pOut = [a \in Copies |-> IF a \in remote THEN "none" ELSE "open"]
       /\ pPromise = [a \in Copies |-> IF a \in remote THEN "resolved" ELSE "pending"]
  /\ pPc = "copy"

pipeRest == <<oldVars, assetVars, stackVars, serveVars, prepVars>>

\* A promise is settled once: resolve and reject of a settled promise do nothing.
Settle(promise, to) == IF promise = "pending" THEN to ELSE promise

\* The read stream emits 'end': inputStream.on('end', () => resolve()).
PipeInputEnd(a) ==
  /\ pIn[a] = "open"
  /\ pIn' = [pIn EXCEPT ![a] = "ended"]
  /\ pPromise' = [pPromise EXCEPT ![a] = Settle(@, "resolved")]
  /\ UNCHANGED <<pipeRest, pOut, pPc>>

\* The read stream emits 'error': the promise has no handler for it, and pipe
\* does not end the write stream.
PipeInputError(a) ==
  /\ pIn[a] = "open"
  /\ pIn' = [pIn EXCEPT ![a] = "error"]
  /\ UNCHANGED <<pipeRest, pOut, pPromise, pPc>>

\* The write stream, ended by pipe after the read stream's 'end', has written
\* what it was given.
PipeOutputFinish(a) ==
  /\ pIn[a] = "ended"
  /\ pOut[a] = "open"
  /\ pOut' = [pOut EXCEPT ![a] = "finished"]
  /\ UNCHANGED <<pipeRest, pIn, pPromise, pPc>>

\* The write stream emits 'error': outputStream.on('error', e => reject(e)).
PipeOutputError(a) ==
  /\ pOut[a] = "open"
  /\ pOut' = [pOut EXCEPT ![a] = "error"]
  /\ pPromise' = [pPromise EXCEPT ![a] = Settle(@, "rejected")]
  /\ UNCHANGED <<pipeRest, pIn, pPc>>

\* await Promise.all([...]) resolves: build() goes on to writeContentJson and
\* the compiler.
PipeCopiesResolved ==
  /\ pPc = "copy"
  /\ \A a \in Copies : pPromise[a] = "resolved"
  /\ pPc' = "compile"
  /\ UNCHANGED <<pipeRest, pIn, pOut, pPromise>>

\* await Promise.all([...]) rejects: build() throws.
PipeCopiesRejected ==
  /\ pPc = "copy"
  /\ \E a \in Copies : pPromise[a] = "rejected"
  /\ pPc' = "failed"
  /\ UNCHANGED <<pipeRest, pIn, pOut, pPromise>>

\* The compiler, the output and recordBuildAttempt.
PipeRecord ==
  /\ pPc = "compile"
  /\ pPc' = "recorded"
  /\ UNCHANGED <<pipeRest, pIn, pOut, pPromise>>

PipeNext ==
  \/ \E a \in Copies : PipeInputEnd(a)
  \/ \E a \in Copies : PipeInputError(a)
  \/ \E a \in Copies : PipeOutputFinish(a)
  \/ \E a \in Copies : PipeOutputError(a)
  \/ PipeCopiesResolved
  \/ PipeCopiesRejected
  \/ PipeRecord

PipeSpec == PipeInit /\ [][PipeNext]_vars

\* ------------------------------------------- build records, cache, GET handler
\* Number of build records inserted in a run of the model.
MaxRecords == 3
RecordIds == 1..MaxRecords
ServeActions == {"preview", "publish"}

ServeInit ==
  /\ cos = <<>>
  /\ sortSt = SortStart(CourseLid)
  /\ RunIdle
  /\ ExtractIdle
  /\ TripIdle
  /\ BuildIdle
  /\ ResolveIdle
  /\ MigrateIdle
  /\ DefaultsIdle
  /\ AssetIdle
  /\ StackIdle
  /\ PipeIdle
  /\ ServeIdle
  /\ PrepIdle

serveRest == <<oldVars, assetVars, stackVars, pipeVars, prepVars>>

\* removeOldBuilds of a build of the action: the locations of the user's
\* records of that action are removed, then the records. buildCache is not
\* touched.
ServeRemoveOldBuilds(a) ==
  /\ sNext < MaxRecords
  /\ LET old == {r \in sRecords : r.action = a}
     IN /\ old # {}
        /\ sOut' = sOut \ {r.id : r \in old}
        /\ sRecords' = sRecords \ old
  /\ sLast' = NoGet
  /\ UNCHANGED <<serveRest, sCache, sNext>>

\* recordBuildAttempt of a build of the action: mongodb.insert of the record
\* of the new output.
ServeRecordBuildAttempt(a) ==
  /\ sNext < MaxRecords
  /\ sNext' = sNext + 1
  /\ sRecords' = sRecords \cup {[id |-> sNext + 1, action |-> a]}
  /\ sOut' = sOut \cup {sNext + 1}
  /\ UNCHANGED <<serveRest, sCache, sLast>>

\* if(buildCache[id]) return buildCache[id]
CacheHit(cache, id) == \E r \in cache : r.id = id

\* retrieveBuildData(id): the cached record, or else the record mdb.find
\* returns (undefined when there is none), which is cached.
RetrieveBuildData(cache, records, id) ==
  IF CacheHit(cache, id)
  THEN [data |-> {r \in cache : r.id = id}, cache |-> cache]
  ELSE LET found == {r \in records : r.id = id}
       IN [data |-> found, cache |-> cache \cup found]

\* getHandler for /:action/:id: FW_BUILD_NOT_FOUND without build data, else
\* the file at buildData.location is sent (the records of the model have not
\* expired).
ServeGetHandler(id) ==
  /\ id <= sNext
  /\ LET got == RetrieveBuildData(sCache, sRecords, id)
     IN /\ sCache' = got.cache
        /\ sLast' = [id |-> id, data |-> got.data # {},
                     reply |-> IF got.data = {} THEN "FW_BUILD_NOT_FOUND" ELSE "sendFile"]
  /\ UNCHANGED <<serveRest, sRecords, sOut, sNext>>

ServeNext ==
  \/ \E a \in ServeActions : ServeRemoveOldBuilds(a)
  \/ \E a \in ServeActions : ServeRecordBuildAttempt(a)
  \/ \E id \in RecordIds : ServeGetHandler(id)

ServeSpec == ServeInit /\ [][ServeNext]_vars

\* ------------------------------------------------- sortContentItems alone
\* The sibling _sortOrder values of a stored course are unique.
UniqueSortOrders(n, par, so) ==
  \A j, k \in 1..n : (j # k /\ par[j] = par[k]) => so[j] # so[k]

\* The _type values of the items the buckets are filled from.
BucketTypes == {"menu", "page", "article"}

\* loadCourseData has read the content items of a course: n items, each the
\* child of the course or of an earlier item, of any type, siblings with
\* different _sortOrder values. tStore holds them, tFiles will hold the data
\* arrays of courseData.
BucketInit ==
  /\ \E n \in 0..MaxItems :
       \E par \in [1..n -> 0..n], so \in [1..n -> 1..n], typ \in [1..n -> BucketTypes] :
         /\ \A k \in 1..n : par[k] < k
         /\ UniqueSortOrders(n, par, so)
         /\ tStore = [k \in 1..n |->
                        [oid |-> NewOid(k), lid |-> k, type |-> typ[k],
                         parentOid |-> NewOid(par[k]), sortOrder |-> so[k],
                         component |-> Undefined]]
  /\ tAssets = {}
  /\ tFiles = <<>>
  /\ tDocs = {}
  /\ tPc = "stored"
  /\ cos = <<>>
  /\ sortSt = SortStart(CourseLid)
  /\ RunIdle
  /\ ExtractIdle
  /\ BuildIdle
  /\ ResolveIdle
  /\ MigrateIdle
  /\ DefaultsIdle
  /\ MoreIdle

\* this.sortContentItems(contentItems): courseData[type].data for every type.
BucketSort ==
  /\ tPc = "stored"
  /\ tFiles' = [b \in ContentFiles |-> SortContentItems(tStore, b)]
  /\ tPc' = "bucketed"
  /\ UNCHANGED <<sortVars, runVars, moreVars, resolveVars, migrateVars, defaultsVars,
                 extractVars, buildVars, tStore, tAssets, tDocs>>

BucketNext == BucketSort

BucketSpec == BucketInit /\ [][BucketNext]_vars

\* ============================================================ properties
\* ------------------------------------------------------ trees, by definition
ItemIds(cosq) == {cosq[k].id : k \in DOMAIN cosq}
ParentIn(cosq, id) == (CHOOSE k \in DOMAIN cosq : cosq[k].id = id)
ParentId(cosq, id) == cosq[ParentIn(cosq, id)].parentId

\* The number of parent links from id up to the course, -1 when the chain of
\* parents leaves the set or does not reach the course within fuel links.
RECURSIVE DepthOf(_, _, _)
DepthOf(cosq, id, fuel) ==
  IF id = CourseLid THEN 0
  ELSE IF fuel = 0 \/ id \notin ItemIds(cosq) THEN -1
  ELSE LET d == DepthOf(cosq, ParentId(cosq, id), fuel - 1)
       IN IF d < 0 THEN -1 ELSE d + 1

Depth(cosq, id) == DepthOf(cosq, id, Len(cosq))

\* One root (the course), no cycle, every item's parent in the set.
ValidTree(cosq) == \A id \in ItemIds(cosq) : Depth(cosq, id) >= 1

TreeDepth(cosq) ==
  IF cosq = <<>> THEN 0
  ELSE CHOOSE d \in 1..Len(cosq) :
         /\ \E id \in ItemIds(cosq) : Depth(cosq, id) = d
         /\ \A id \in ItemIds(cosq) : Depth(cosq, id) <= d

Occurrences(q, x) == Cardinality({k \in DOMAIN q : q[k] = x})
LevelSet(k) == {sortSt.sorted[k][j] : j \in DOMAIN sortSt.sorted[k]}

\* The level (index into sorted, the course's being 1) that holds the item.
LevelOf(i) == CHOOSE k \in DOMAIN sortSt.sorted : i \in LevelSet(k)
Sorted(i) == \E k \in DOMAIN sortSt.sorted : i \in LevelSet(k)

\* C8: for a valid single-rooted item set getSortedData never runs more passes
\* than the tree is deep, never ends in the structural error, and its loop
\* condition is false once it has run as many passes as the tree is deep.
C8_SortTerminatesWithinDepth ==
  ValidTree(cos) =>
    /\ sortSt.passes <= TreeDepth(cos)
    /\ sortSt.status # "thrown"
    /\ (sortSt.passes = TreeDepth(cos) => ~SortLoopCond(cos, sortSt))

\* A tree of depth at least two has been sorted to the end.
C8_Witness ==
  /\ ValidTree(cos)
  /\ sortSt.status = "returned"
  /\ sortSt.passes >= 2

\* C9: for a valid item set the returned levels hold the course alone in level
\* 0 and every item exactly once, and the hierarchy map holds every item exactly
\* once, in the list of its own parent.
C9_LevelsPartitionInput ==
  (ValidTree(cos) /\ sortSt.status = "returned") =>
    /\ sortSt.sorted[1] = <<CourseLid>>
    /\ Len(Flatten(sortSt.sorted, 1)) = Len(cos) + 1
    /\ \A id \in ItemIds(cos) : Occurrences(Flatten(sortSt.sorted, 1), id) = 1
    /\ \A id \in ItemIds(cos) :
         \A k \in HierKeys :
           Occurrences(sortSt.hierarchy[k], id) = (IF k = ParentId(cos, id) THEN 1 ELSE 0)
    /\ \A k \in HierKeys :
         \A j \in DOMAIN sortSt.hierarchy[k] : sortSt.hierarchy[k][j] \in ItemIds(cos)

\* Two siblings and a grandchild have been sorted.
C9_Witness ==
  /\ ValidTree(cos)
  /\ sortSt.status = "returned"
  /\ Len(cos) >= 3
  /\ \E k \in HierKeys : Len(sortSt.hierarchy[k]) >= 2
  /\ Len(sortSt.sorted) >= 3

\* C10: in the returned levels an item is in level k+1 exactly when its parent
\* is in level k, level k is the set of items at depth k, and the chain
\* c1 <- p1 <- b1 <- k1 sorts to [[c1],[p1],[b1],[k1]].
C10_LevelIsDepth ==
  sortSt.status = "returned" =>
    /\ \A id \in ItemIds(cos) :
         \A k \in 1..(Len(sortSt.sorted) - 1) :
           (id \in LevelSet(k + 1)) <=> (ParentId(cos, id) \in LevelSet(k))
    /\ \A k \in DOMAIN sortSt.sorted :
         LevelSet(k) \cap ItemIds(cos) = {id \in ItemIds(cos) : Depth(cos, id) = k - 1}
    /\ ([k \in DOMAIN cos |-> <<cos[k].id, cos[k].parentId>>] =
           << <<1, CourseLid>>, <<2, 1>>, <<3, 2>> >>
          => sortSt.sorted = << <<CourseLid>>, <<1>>, <<2>>, <<3>> >>)

\* The chain of the example has been sorted.
C10_Witness ==
  /\ sortSt.status = "returned"
  /\ sortSt.sorted = << <<CourseLid>>, <<1>>, <<2>>, <<3>> >>

\* ---------------------------------------------------------- import run
\* The store id generated for the parent of item i.
ParentOid(i) ==
  IF cos[i].parentId = CourseLid THEN idMap[CourseLid]
  ELSE IF cos[i].parentId \in Items THEN itemData[cos[i].parentId].oid
  ELSE Undefined

Finishing == pc \in {"cleanUp", "settled"}

\* C1: an item's importContentObject call is started only when every item of
\* the earlier levels has committed and is in idMap; the parent reference an
\* item is inserted with, and the _parentId of every stored item, is the store
\* id generated for its parent, never undefined and never a package id.
C1_LevelByLevelParentIds ==
  /\ \A i \in Items :
       itemPc[i] # "idle" =>
         /\ Sorted(i)
         /\ LET li == LevelOf(i)
            IN \A j \in Items :
                 (itemPc[j] # "done" \/ idMap[j] # itemData[j].oid) =>
                    ~(Sorted(j) /\ LevelOf(j) < li)
  /\ \A i \in Items :
       itemPc[i] \in {"transformed", "inserted", "done"} =>
         (itemData[i].parentId = ParentOid(i) /\ itemData[i].parentId >= OidBase)
  /\ \A r \in contentStore :
       r.lid \in Items => (r.parentId = ParentOid(r.lid) /\ r.parentId >= OidBase)

\* An item whose parent is another item has been committed.
C1_Witness ==
  \E r \in contentStore :
    /\ r.lid \in Items
    /\ cos[r.lid].parentId \in Items
    /\ r.parentId = itemData[cos[r.lid].parentId].oid

\* C2: once cleanUp of a failed run has returned without any of its remove,
\* delete or uninstall calls failing, no content item and no asset of the run
\* remains, every plugin the run installed is uninstalled and the working
\* directory is removed.
C2_FailedRunLeavesNothing ==
  (pc = "settled" /\ error # "none" /\ ~callFailed) =>
    /\ contentStore = {}
    /\ assetStore = {}
    /\ \A p \in newPlugins : registry[p] = "absent"
    /\ ~dirExists

\* C3: import() rejects with exactly the error its stage threw, after cleanUp
\* has run, whatever cleanUp's own tasks did; with no stage error it resolves.
C3_StageErrorSurvivesCleanUp ==
  pc = "settled" =>
    /\ cleanUps = 1
    /\ (error # "none" => result = error)
    /\ (error = "none" => result = "resolved")

\* A failed run whose cleanUp failed too has been rejected with the stage's error.
C3_Witness ==
  /\ pc = "settled"
  /\ cleanThrew
  /\ error = "IMPORT_CONTENT_FAILED"
  /\ result = error

\* The order of the stages as the claim gives it (loading the content files
\* lies between asset import and plugin resolution), cleanUp last.
ClaimOrder == <<"prepare", "assets", "load", "plugins", "content", "cleanUp">>
Rank(s) == CHOOSE k \in DOMAIN ClaimOrder : ClaimOrder[k] = s

\* C4: the stages are started in the fixed order, each at most once and only
\* while no stage has failed; once a stage has failed no stage is started;
\* cleanUp is run exactly once in every run, after the last started stage.
C4_StagesInOrderCleanUpOnce ==
  /\ \A a \in 1..(Len(log) - 1) : Rank(log[a]) < Rank(log[a + 1])
  /\ (error # "none" => Finishing)
  /\ cleanUps = Occurrences(log, "cleanUp")
  /\ cleanUps <= 1
  /\ (Finishing /\ pc # "cleanUp" => cleanUps = 1)
  /\ (~Finishing => cleanUps = 0)

\* Every stage has run and the run has settled.
C4_Witness ==
  /\ pc = "settled"
  /\ log = ClaimOrder

\* C5: when an item of a level fails validation, import() fails only once every
\* item of the level has settled, with IMPORT_CONTENT_FAILED listing every
\* failed item of the level, and no item of a later level is attempted.
C5_LevelErrorsCollected ==
  (Finishing /\ errs # {}) =>
    /\ error = "IMPORT_CONTENT_FAILED"
    /\ errorData = {i \in LevelIds(levelIdx) : itemPc[i] \in {"failed", "crashed"}}
    /\ \A i \in LevelIds(levelIdx) : itemPc[i] \in {"done", "failed"}
    /\ \A i \in Items : (Sorted(i) /\ LevelOf(i) > levelIdx + 1) => itemPc[i] = "idle"

\* Whether prepare() has read the manifest.
ManifestRead == pkg # NoPkg
NothingCreated ==
  /\ contentStore = {} /\ nextOid = 0
  /\ assetStore = {} /\ assetMap = {}
  /\ newPlugins = {} /\ registry = registry0

\* C6 as stated: the package is rejected with FW_INCOMPAT exactly when its
\* major version differs from the framework's, and nothing has been created.
C6_RejectsExactlyOtherMajors ==
  /\ ManifestRead => (error = "FW_INCOMPAT" <=> pkg.major # FrameworkMajor)
  /\ (error = "FW_INCOMPAT" => NothingCreated)

\* C6 amended: the package is rejected with FW_INCOMPAT exactly when its major
\* version differs from the framework's or its version carries a prerelease
\* tag; a release version of the same major passes whatever its minor; at the
\* rejection, and after it, the run has created nothing.
C6_RejectsOtherMajorsAndPrereleases ==
  /\ ManifestRead =>
       (error = "FW_INCOMPAT" <=> (pkg.major # FrameworkMajor \/ pkg.pre))
  /\ (error = "FW_INCOMPAT" => NothingCreated)

\* A package of major 3 has been rejected by a framework of major 5.
C6_Witness ==
  /\ pc = "cleanUp"
  /\ error = "FW_INCOMPAT"
  /\ pkg.major = FrameworkMajor - 2
  /\ ~pkg.pre

\* C7: a run with importPlugins false whose package references a plugin that
\* is absent from the registry (content import requested) ends rejected with
\* MISSING_PLUGINS, and the content store has inserted nothing.
C7_MissingPluginFailsWithoutInsert ==
  (/\ pc = "settled"
   /\ ~settings.importPlugins
   /\ settings.importContent
   /\ \E p \in used : registry0[p] = "absent") =>
     (result = "MISSING_PLUGINS" /\ nextOid = 0)

\* C11: when an item's chain of parents does not reach the course (a parent
\* absent from the set, or a cycle), getSortedData throws after at most as many
\* passes as there are items, import() fails with IMPORT_CONTENT_SORT_FAILED,
\* and no item of the set has been dispatched or stored.
C11_BrokenTreeFailsBeforeDispatch ==
  ~ValidTree(cos) =>
    /\ sortSt.status = "thrown"
    /\ sortSt.passes <= Len(cos)
    /\ error = "IMPORT_CONTENT_SORT_FAILED"
    /\ Finishing
    /\ \A i \in Items : itemPc[i] = "idle"
    /\ \A r \in contentStore : r.lid \notin Items
    /\ (pc = "settled" => result = "IMPORT_CONTENT_SORT_FAILED")

\* A set with a valid item and an item on a detached cycle has failed the sort
\* in its second pass.
C11_Witness ==
  /\ pc = "settled"
  /\ result = "IMPORT_CONTENT_SORT_FAILED"
  /\ sortSt.passes = 2
  /\ \E i \in ItemIds(cos) : Depth(cos, i) = 1
  /\ \E i \in ItemIds(cos) : ParentId(cos, i) \in ItemIds(cos) /\ Depth(cos, i) < 0

\* The siblings of the item id that lie before it in the order the claim asks
\* for: by the explicit _sortOrder when the package items carry one, by input
\* position when they carry none.
ClaimedBefore(id) ==
  LET c == cos[ParentIn(cos, id)]
  IN {k \in DOMAIN cos :
        /\ cos[k].parentId = c.parentId
        /\ IF c.sortOrder # Undefined /\ cos[k].sortOrder # Undefined
           THEN cos[k].sortOrder < c.sortOrder
           ELSE k < ParentIn(cos, id)}

\* C12: every sorted item is given for insertion the _sortOrder its package
\* item carries, or its input position among its siblings when it carries
\* none, and its parent's children list orders it likewise.
C12_ExplicitSortOrderWins ==
  sortSt.status = "returned" =>
    \A id \in ItemIds(cos) :
      Sorted(id) =>
        SortOrderOf(sortSt.hierarchy, cos[ParentIn(cos, id)])
          = Cardinality(ClaimedBefore(id)) + 1

\* Whether every flagged field of the data, at any depth, holds the id of a
\* stored asset or nothing.
RECURSIVE AssetFieldsMapped(_, _)
AssetFieldsMapped(schema, data) ==
  \A key \in DOMAIN schema \cap DOMAIN data :
    LET val == schema[key]
        x == data[key]
    IN IF val.kind = "asset"
       THEN x.t = "undef" \/ (x.t = "id" /\ \E a \in assetStore : x.v = AssetId(a))
       ELSE IF val.kind = "object" THEN x.t = "obj" /\ AssetFieldsMapped(val.props, x.v)
       ELSE IF val.kind = "array"
       THEN x.t = "arr" /\ \A n \in DOMAIN x.v : AssetFieldsMapped(val.props, x.v[n])
       ELSE TRUE

\* C13: a committed item holds, in every field its schema flags as an asset
\* (inside objects and array items too), the id of an asset this run created,
\* or nothing: never the package's reference string.
C13_AssetFieldsNeverStale ==
  xPc = "inserted" => AssetFieldsMapped(xSchema, xData)

\* The imported document of the stored item k.
DocOfStored(k) == CHOOSE d \in tDocs : d.lid = tStore[k].lid

\* C14: the import of a course's export ends with one inserted item for every
\* stored item and no other, of the same type and component plugin, under the
\* item that stands for its parent, and ordered among its siblings as in the store.
C14_RoundTripIsomorphic ==
  /\ tPc # "failed"
  /\ tPc = "imported" =>
       /\ Cardinality(tDocs) = Len(tStore)
       /\ \A k \in DOMAIN tStore :
            /\ \E d \in tDocs : d.lid = tStore[k].lid
            /\ DocOfStored(k).type = tStore[k].type
            /\ DocOfStored(k).component = tStore[k].component
            /\ DocOfStored(k).parentId
                 = ImportedOid(BuildIdMapGet(tStore, tStore[k].parentOid))
            /\ \A j \in DOMAIN tStore :
                 tStore[j].parentOid = tStore[k].parentOid =>
                   ((tStore[j].sortOrder < tStore[k].sortOrder)
                      <=> (DocOfStored(j).sortOrder < DocOfStored(k).sortOrder))

\* ------------------------------------------------------------- build runs
\* The builds started for the action a by the user u, and the latest of a set.
BuildsOf(a, u) == {i \in DOMAIN builds : builds[i].action = a /\ builds[i].createdBy = u}
Latest(S) == CHOOSE i \in S : \A j \in S : j <= i
RecordsOf(a, u) == {r \in bRecords : r.action = a /\ r.createdBy = u}

\* C15: when every build so far has completed and none overlapped another,
\* each (action, createdBy) pair that was built has exactly one record, that of
\* its latest build, and of the outputs of its builds only the latest exists;
\* a pair that was never built has no record.
C15_OneRecordPerPairAfterSequence ==
  (~overlap /\ \A i \in DOMAIN builds : builds[i].status = "done") =>
    \A a \in Actions, u \in Users :
      LET S == BuildsOf(a, u)
      IN IF S = {}
         THEN RecordsOf(a, u) = {}
         ELSE /\ RecordsOf(a, u) = {[id |-> Latest(S), action |-> a, createdBy |-> u]}
              /\ bOut \cap S = {Latest(S)}

\* Two successive preview builds by one creator have completed.
C15_Witness ==
  /\ ~overlap
  /\ Len(builds) = 2
  /\ \A i \in DOMAIN builds :
       builds[i] = [action |-> "preview", createdBy |-> 1, status |-> "done"]
  /\ bOut = {2}

Done(S) == {i \in S : builds[i].status = "done"}

\* C16: when no build overlapped another and the latest build of a pair has
\* failed, the record and the output of the pair's latest completed build are
\* still in place.
C16_FailedBuildKeepsPrior ==
  ~overlap =>
    \A a \in Actions, u \in Users :
      LET S == BuildsOf(a, u)
      IN (Done(S) # {} /\ builds[Latest(S)].status = "failed") =>
           /\ [id |-> Latest(Done(S)), action |-> a, createdBy |-> u] \in bRecords
           /\ Latest(Done(S)) \in bOut

\* C17: once every build has completed, overlapping or not, each pair has at
\* most one record and the output of every record exists.
C17_OneRecordUnderOverlap ==
  (\A i \in DOMAIN builds : builds[i].status = "done") =>
    /\ \A a \in Actions, u \in Users : Cardinality(RecordsOf(a, u)) <= 1
    /\ \A r \in bRecords : r.id \in bOut

\* The steps build() awaits, in the order of its statements, for an action.
StepsOf(a) ==
  <<"loadCourseData", "writeContentJson">>
    \o (IF a = "export" THEN <<>> ELSE <<"buildCourse">>)
    \o <<IF a = "preview" THEN "createPreview" ELSE "createZip", "recordBuildAttempt">>

LogPrefixOf(done, steps) ==
  /\ Len(done) <= Len(steps)
  /\ \A k \in 1..Len(done) : done[k] = steps[k]

C19_CompilerOnce ==
  \A b \in Builders :
    job[b].pc # "idle" =>
      /\ job[b].compiles <= 1
      /\ job[b].action = "export" => job[b].compiles = 0
      /\ (job[b].action # "export" /\ job[b].pc \in {"package", "record", "done"}) =>
           job[b].compiles = 1
      /\ job[b].error = "FW_CLI_BUILD_FAILED" =>
           /\ job[b].pc = "failed" /\ job[b].compiles = 1
           /\ job[b].errorData = "stderr"
           /\ job[b].log = <<"loadCourseData", "writeContentJson">>
           /\ job[b].id \notin bOut
           /\ \A r \in bRecords : r.id # job[b].id
           /\ builds[job[b].id].status = "failed"
      /\ (job[b].pc = "failed" /\ job[b].compiles = 1 /\ Len(job[b].log) = 2) =>
           job[b].error = "FW_CLI_BUILD_FAILED"

\* A preview has failed in the compiler, an export has completed without it.
C19_Witness ==
  /\ job[1].action = "preview" /\ job[1].error = "FW_CLI_BUILD_FAILED"
  /\ job[2].action = "export" /\ job[2].pc = "done" /\ job[2].compiles = 0

\* C20: a build whose courseId matches no course never gets past
\* loadCourseData: it finishes no step, copies nothing, never calls the
\* compiler, writes no output and no record, and when loadCourseData has been
\* awaited it has failed with NOT_FOUND carrying the type course.
C20_MissingCourseNotFound ==
  \A b \in Builders :
    (job[b].pc # "idle" /\ ~job[b].courseExists) =>
      /\ job[b].pc \in {"find", "remove", "deleteMany", "load", "failed"}
      /\ job[b].log = <<>>
      /\ job[b].copied = {}
      /\ job[b].compiles = 0
      /\ job[b].id \notin bOut
      /\ \A r \in bRecords : r.id # job[b].id
      /\ job[b].pc = "failed" =>
           \/ job[b].error = "NOT_FOUND" /\ job[b].errorData = "course"
           \/ job[b].error = "IOError"

\* A build of a missing course has failed with NOT_FOUND.
C20_Witness ==
  \E b \in Builders :
    /\ ~job[b].courseExists
    /\ job[b].pc = "failed"
    /\ job[b].error = "NOT_FOUND"
    /\ job[b].errorData = "course"

\* C21: no step of a build run changes the content collection.
C21_ContentStoreReadOnly == [][tStore' = tStore]_vars

\* A build has completed and another has failed after loading the course; the
\* items they transformed in memory differ from the stored ones.
C21_Witness ==
  /\ job[1].pc = "done"
  /\ job[2].pc = "failed" /\ job[2].error = "FW_CLI_BUILD_FAILED"
  /\ Len(tStore) = 2
  /\ \A b \in Builders :
       /\ Len(job[b].items) = Len(tStore)
       /\ \A k \in DOMAIN tStore : job[b].items[k].id # tStore[k].oid

\* ------------------------------------------------------ plugin resolution
Registered == {n \in RegNames : rAll[n].present}
DependsOn(all, n, d) == all[n].present /\ all[n].deps[d] # NoRange

\* The names S and every name reached from them along dependency maps.
RECURSIVE DepClosure(_, _)
DepClosure(all, S) ==
  LET next == S \cup {d \in RegNames : \E n \in S : DependsOn(all, n, d)}
  IN IF next = S THEN S ELSE DepClosure(all, next)

\* C22: once cachePluginData has succeeded, enabledPlugins and disabledPlugins
\* split the registry in two; the enabled plugins are the listed ones and all
\* they reach through dependency maps, so every dependency of an enabled plugin
\* is enabled; copySource leaves out the directories of the disabled plugins
\* and of no other plugin.
C22_EnabledIsDependencyClosure ==
  rPc \in {"resolved", "copied"} =>
    /\ rEnabled \cap rDisabled = {}
    /\ rEnabled \cup rDisabled = Registered
    /\ rEnabled = DepClosure(rAll, rNames)
    /\ \A n \in rEnabled, d \in RegNames : DependsOn(rAll, n, d) => d \in rEnabled
    /\ rPc = "copied" => rCopied = Registered \ rDisabled

\* One listed plugin, one enabled as its dependency, one disabled and left out.
C22_Witness ==
  /\ rPc = "copied"
  /\ rNames = {3}
  /\ rEnabled = {2, 3}
  /\ rDisabled = {1}
  /\ rCopied = {2, 3}

\* A name the course requires, directly or through dependency maps, is not in
\* the registry; a dependency map of a required plugin asks for a range the
\* registered version does not satisfy.
MissingRequired == \E n \in DepClosure(rAll, rNames) : ~rAll[n].present
IncompatRequired ==
  \E n \in DepClosure(rAll, rNames), d \in RegNames :
    /\ DependsOn(rAll, n, d)
    /\ rAll[d].present
    /\ ~RangeSatisfied(rAll[d].version, rAll[n].deps[d])

\* C23: when a required plugin is missing or a required range is not satisfied,
\* cachePluginData fails with FW_MISSING_PLUGIN_DEP or FW_INCOMPAT_PLUGIN_DEP,
\* whichever of the two applies, and leaves enabledPlugins and disabledPlugins
\* as they were.
C23_MissingOrIncompatDependency ==
  (rPc # "config" /\ (MissingRequired \/ IncompatRequired)) =>
    /\ rPc = "failed"
    /\ rError.kind \in
         (IF MissingRequired THEN {"FW_MISSING_PLUGIN_DEP"} ELSE {}) \cup
         (IF IncompatRequired THEN {"FW_INCOMPAT_PLUGIN_DEP"} ELSE {})
    /\ rEnabled = {}
    /\ rDisabled = {}

\* C24: for the registry and the listed names at hand, every order of the
\* list and every order of the dependency maps gives the outcome (success or
\* failure) and, on success, the two sets that the order by name gives, hence
\* all orders give the same; cachePluginData has pushed exactly those.
C24_ResolutionOrderIndependent ==
  LET upwards == [i \in RegNames |-> i]
      r1 == CachePluginDataResult(rAll, InOrder(rNames, upwards, 1), upwards)
  IN /\ \A list \in Perms(rNames), ord \in MapOrders :
          LET r2 == CachePluginDataResult(rAll, list, ord)
          IN /\ (r1.error.kind = "none") <=> (r2.error.kind = "none")
             /\ r1.enabledPlugins = r2.enabledPlugins
             /\ r1.disabledPlugins = r2.disabledPlugins
     /\ rPc \in {"resolved", "copied"} =>
          /\ r1.error.kind = "none"
          /\ rEnabled = r1.enabledPlugins
          /\ rDisabled = r1.disabledPlugins
     /\ rPc = "failed" => r1.error.kind # "none"

\* Two listed plugins and a plugin with two dependencies, resolved: the orders
\* of the list and of the map could each have been the other one.
C24_Witness ==
  /\ rPc = "resolved"
  /\ rNames = {2, 3}
  /\ rAll[3].deps[1] # NoRange /\ rAll[3].deps[2] # NoRange
  /\ rEnabled = {1, 2, 3}

\* ------------------------------------------------------------- migrations
\* C25: a second application of transformData to an item it has already
\* transformed, with the same id map and name map, throws nothing and changes
\* no field.
C25_MigrationIdempotent ==
  mRuns = 2 => (mError = "none" /\ mOut = mOnce)

\* ------------------------------------------------------- course and config
\* Every plain value the document d holds is held by e at the same place.
KeepsValues(d, e) ==
  /\ d.a # Undefined => e.a = d.a
  /\ d.o.has => (e.o.has /\ (d.o.x # Undefined => e.o.x = d.o.x))
  /\ d.l.has => /\ e.l.has
                /\ Len(e.l.v) >= Len(d.l.v)
                /\ \A i \in 1..Len(d.l.v) : e.l.v[i] = d.l.v[i]

\* C26: the store calls come in the order insert course, insert config,
\* replace course, replace config, insert of an item; and once the defaults
\* are applied to course or config, the stored document holds every value the
\* inserted item held.
C26_CourseConfigThenDefaults ==
  /\ LogPrefixOf(dLog, <<"insert course", "insert config", "replace course",
                         "replace config", "insert item">>)
  /\ dStore # <<>> =>
       /\ dStore.config # <<>> => dStore.course # <<>>
       /\ dStore.item # <<>> => Len(dLog) = 5
       /\ Len(dLog) >= 3 => KeepsValues(dCourse, dStore.course[1])
       /\ Len(dLog) >= 4 => KeepsValues(dConfig, dStore.config[1])

\* The defaults have been applied to both, an item is inserted, and the
\* course has both kept a value of its own and been given a default.
C26_Witness ==
  /\ dPc = "levels"
  /\ dStore.item # <<>>
  /\ dCourse.a = ItemValue /\ dStore.course[1].a = ItemValue
  /\ dCourse.l.v = <<>> /\ dCourse.l.has /\ dStore.course[1].l.v = <<DefaultValue>>
  /\ ~dConfig.o.has /\ dStore.config[1].o.x = DefaultValue

\* ------------------------------------------------------- enabled plugins
\* C27: the enabled-plugin set is persisted on the course at most once and on
\* no other document; when it has been, every item of the package is inserted
\* and mapped and no item has failed; a content import that has resolved has
\* persisted it.
C27_EnabledPluginsPersistedOnce ==
  /\ \A r \in contentStore :
       /\ r.enabledPlugins <= 1
       /\ r.lid # CourseLid => r.enabledPlugins = 0
       /\ r.enabledPlugins = 1 =>
            /\ sortSt.status = "returned"
            /\ \A i \in ItemIds(cos) :
                 itemPc[i] = "done" /\ \E d \in contentStore : d.lid = i
            /\ errs = {}
            /\ error = "none"
            /\ Finishing
  /\ (pc = "settled" /\ result = "resolved" /\ settings.importContent) =>
       \E r \in contentStore : r.lid = CourseLid /\ r.enabledPlugins = 1

\* A content import of two levels has resolved with the set persisted.
C27_Witness ==
  /\ pc = "settled" /\ result = "resolved"
  /\ \E r \in contentStore : r.lid = CourseLid /\ r.enabledPlugins = 1
  /\ Len(cos) = 2
  /\ Len(sortSt.sorted) = 3

\* The plugins the package references that the registry did not have when the
\* run began and that the run has not installed.
StillMissing == {p \in used : registry0[p] = "absent" /\ p \notin newPlugins}

\* C28: a referenced plugin that is absent from the registry or could not be
\* installed is fatal only when content import is requested: a settled run
\* with importContent false has not failed at the plugin stage because of it,
\* and a settled run with importContent true has failed.
C28_MissingPluginFatalOnlyWithContent ==
  (pc = "settled" /\ StillMissing # {}) =>
     /\ ~settings.importContent => error \notin {"MISSING_PLUGINS", "IMPORT_PLUGINS_FAILED"}
     /\ settings.importContent => result # "resolved"

\* importCoursePlugins has run in this import.
PluginsStageRan == \E i \in DOMAIN log : log[i] = "plugins"

\* C29: importCoursePlugins takes one decision for each plugin the package
\* references: it is passed to installPlugins exactly when it is absent from
\* the registry (install) or is present with an older version while
\* updatePlugins is set (update); every other plugin is skipped, and a skipped
\* plugin is neither passed to installPlugins nor recorded in newContentPlugins.
C29_OneDecisionPerPlugin ==
  /\ newPlugins \subseteq installCalls
  /\ installCalls \subseteq used
  /\ ~PluginsStageRan => installCalls = {}
  /\ PluginsStageRan =>
       \A p \in used :
         p \in installCalls <=>
           (registry0[p] = "absent" \/ (registry0[p] = "older" /\ settings.updatePlugins))

\* A finished run has skipped a plugin: one with an older version while
\* updatePlugins is off, or one whose version is current while updatePlugins is set.
C29_Witness ==
  /\ pc = "settled"
  /\ result = "resolved"
  /\ PluginsStageRan
  /\ \E p \in used :
       /\ p \notin installCalls
       /\ \/ registry0[p] = "older" /\ ~settings.updatePlugins
          \/ registry0[p] = "current" /\ settings.updatePlugins

\* C30: every failed import() reaches the caller as a structured error with a
\* declared kind: no run settles with a raw internal failure, such as the
\* TypeError raised at line 627 while handling a per-item error that carries
\* no validation data.
C30_NoRawInternalFailure == pc = "settled" => result # "TypeError"

\* C31: in the item a build writes, an asset id has been replaced by the
\* asset's package-relative path (its url for a remote asset) only where it is
\* the value of a field the item's schema flags as an asset; every other
\* field, text that contains an asset id included, is written as it was
\* stored; no bytes are copied for a remote asset.
C31_AssetIdsReplacedOnlyInAssetFields ==
  /\ aPc \in {"transformed", "copied"} =>
       \A f \in Fields :
         /\ ~aItem[f].asset => aOut[f] = aItem[f].value
         /\ \A k \in DOMAIN aOut[f] :
              aOut[f][k] # aItem[f].value[k] =>
                /\ aItem[f].asset
                /\ aItem[f].value = <<IdTok(aItem[f].value[k].a)>>
                /\ aOut[f][k] = (IF aItem[f].value[k].a \in aRemote
                                 THEN UrlTok(aItem[f].value[k].a)
                                 ELSE PathTok(aItem[f].value[k].a))
  /\ aCopied \cap aRemote = {}

\* Every importContentObject call that was dispatched has returned.
InsertsSettled == \A i \in Items : itemPc[i] \in {"idle", "done", "failed", "crashed"}

\* C32: every import run terminates: import() resolves or rejects, after
\* cleanUp, and every insert that was dispatched has committed or yielded an
\* error; no item is left pending, whatever became of its parent.
C32_ImportTerminates == <>(pc = "settled" /\ cleanUps = 1 /\ InsertsSettled)

\* A run has been rejected after the insert of a parent failed: its child was
\* never dispatched and nothing is pending.
C32_Witness ==
  /\ pc = "settled"
  /\ InsertsSettled
  /\ \E i, j \in ItemIds(cos) :
       /\ cos[j].parentId = i
       /\ itemPc[i] = "failed"
       /\ itemPc[j] = "idle"

\* C33: cleanUp starts, and with it the deletion of the course's content, only
\* after every insert dispatched for the failed level has settled, whatever
\* the failure of the item was: from then on no insert of the run can commit.
C33_CleanUpAfterLevelSettled == Finishing => InsertsSettled

\* C34: the resolution of a plugin's dependencies ends for every registry,
\* one whose dependency maps form a cycle included: it never runs out of call
\* stack, and no plugin has its dependencies gone through more than once.
C34_DependenciesExpandedOnce ==
  /\ rError.kind # "RangeError"
  /\ \A n \in RegNames : cCount # <<>> => cCount[n] <= 1

\* C35: a plugin that was installed before the import began is installed at
\* every point of the run and after its rollback: cleanUp uninstalls only
\* plugins that were absent from the registry when the run began.
C35_InstalledPluginsSurviveRollback ==
  \A p \in Plugins : registry0[p] # "absent" => registry[p] # "absent"

\* C36: the promise copyAssets holds for an asset settles: it is rejected when
\* reading the source has failed (or writing the destination has), so that
\* build() cannot wait for it for ever; and the compiler is started only when
\* no asset copy is still writing.
C36_AssetCopiesSettle ==
  /\ \A a \in Copies :
       (pPc # "idle" /\ (pIn[a] = "error" \/ pOut[a] = "error")) =>
          pPromise[a] = "rejected"
  /\ pPc \in {"compile", "recorded"} =>
       \A a \in Copies : pOut[a] \in {"none", "finished"}

\* C37: a build that has been evicted is never served: once removeOldBuilds
\* has deleted a build's record, retrieveBuildData returns no record for its
\* id and getHandler answers FW_BUILD_NOT_FOUND, even when the record had been
\* retrieved before the eviction.
C37_EvictedBuildNotServed ==
  (sLast # NoGet /\ ~\E r \in sRecords : r.id = sLast.id) =>
     (~sLast.data /\ sLast.reply = "FW_BUILD_NOT_FOUND")

\* The package ids idMap is keyed by: the course's, the config's, the items'.
PackageIds == {CourseLid, ConfigLid} \cup Items

RECURSIVE DocPath(_, _)
DocPath(items, k) ==
  LET up == {j \in DOMAIN items : items[j].oid = items[k].parentOid}
  IN (IF up = {} THEN <<>> ELSE DocPath(items, CHOOSE j \in up : TRUE))
       \o <<items[k].sortOrder>>

\* Document order: p comes before q when it is a proper prefix of q (an
\* ancestor) or is smaller at the first place where they differ.
DocBefore(p, q) ==
  \/ Len(p) < Len(q) /\ \A h \in 1..Len(p) : p[h] = q[h]
  \/ \E g \in 1..Len(p) :
       /\ g <= Len(q)
       /\ p[g] < q[g]
       /\ \A h \in 1..(g - 1) : p[h] = q[h]

\* C39: sortContentItems puts every item below the course into exactly one
\* bucket, once (menu and page into contentObject, any other item into the
\* bucket of its type), and every bucket lists its items in document order.
C39_BucketsCompleteInDocumentOrder ==
  tPc = "bucketed" =>
    /\ \A k \in DOMAIN tStore :
         /\ Cardinality({r \in DOMAIN tFiles[Bucket(tStore[k].type)] :
                           tFiles[Bucket(tStore[k].type)][r] = tStore[k]}) = 1
         /\ \A b \in ContentFiles \ {Bucket(tStore[k].type)} :
              \A r \in DOMAIN tFiles[b] : tFiles[b][r] # tStore[k]
    /\ \A b \in ContentFiles :
         \A r1, r2 \in DOMAIN tFiles[b] :
           r1 < r2 =>
             DocBefore(DocPath(tStore, tFiles[b][r1].lid), DocPath(tStore, tFiles[b][r2].lid))

\* Two content objects that were read in the reverse of their document order,
\* and an article, have been put into their buckets.
C39_Witness ==
  /\ tPc = "bucketed"
  /\ Len(tStore) = 3
  /\ Len(tFiles["contentObject"]) = 2
  /\ Len(tFiles["article"]) = 1
  /\ tFiles["contentObject"][1].lid = 2
  /\ tFiles["contentObject"][2].lid = 1

\* ---------------------------------------------------------------------------
\* prepare(): the nested zip, the two concurrent existence checks of the course
\* directory, the manifest and convertSchemas. Each run works on its own copy
\* of the same unzipped package, so that two runs can be compared.
\* ---------------------------------------------------------------------------

MaxRuns == 2
Runs == 1..MaxRuns

\* The two directories prepare() checks, in the order of the array it maps.
CourseDirs == <<"src/course", "build/course">>

\* What the unzipped package holds at its top: the framework itself ("flat"),
\* one directory with a package.json ("nested"), or one entry without
\* ("single").
Nests == {"flat", "nested", "single"}

\* The layouts of the framework root of a package.
Packages == [nest : Nests, src : BOOLEAN, build : BOOLEAN]

\* fs.stat(root/dir) resolves when the directory exists.
DirExists(package, dir) == IF dir = "src/course" THEN package.src ELSE package.build

PrepInit ==
  /\ cos = <<>>
  /\ sortSt = SortStart(CourseLid)
  /\ RunIdle
  /\ ExtractIdle
  /\ TripIdle
  /\ BuildIdle
  /\ ResolveIdle
  /\ MigrateIdle
  /\ DefaultsIdle
  /\ AssetIdle
  /\ StackIdle
  /\ PipeIdle
  /\ ServeIdle
  /\ prIn \in Packages
  /\ prRoot = [r \in Runs |-> "unzip"]
  /\ prDone = [r \in Runs |-> {}]
  /\ prPath = [r \in Runs |-> NoPath]
  /\ prPkg = [r \in Runs |-> NoPkg]
  /\ prPc = [r \in Runs |-> "unnest"]
  /\ prErr = [r \in Runs |-> "none"]

prepRest == <<oldVars, assetVars, stackVars, pipeVars, serveVars, prIn>>

\* The first try block: a single directory with a package.json is moved to
\* unzipPath_2, which becomes unzipPath; anything else leaves it alone. Both
\* fs.stat calls of the course directory are then started.
PrepUnnest(r) ==
  /\ prPc[r] = "unnest"
  /\ prRoot' = [prRoot EXCEPT ![r] = IF prIn.nest = "nested" THEN "unzip_2" ELSE "unzip"]
  /\ prPc' = [prPc EXCEPT ![r] = "stat"]
  /\ UNCHANGED <<prepRest, prDone, prPath, prPkg, prErr>>

\* The callback of one directory resumes after its fs.stat: when the directory
\* exists it assigns this.coursePath, otherwise its promise rejects.
PrepStat(r, f) ==
  /\ prPc[r] = "stat"
  /\ f \notin prDone[r]
  /\ prDone' = [prDone EXCEPT ![r] = @ \cup {f}]
  /\ prPath' = [prPath EXCEPT ![r] = IF DirExists(prIn, f)
                                       THEN [root |-> prRoot[r], dir |-> f]
                                       ELSE @]
  /\ UNCHANGED <<prepRest, prRoot, prPkg, prPc, prErr>>

\* Promise.allSettled has both results: without a coursePath INVALID_COURSE is
\* thrown.
PrepSettled(r) ==
  /\ prPc[r] = "stat"
  /\ prDone[r] = {CourseDirs[k] : k \in DOMAIN CourseDirs}
  /\ IF prPath[r] = NoPath
       THEN /\ prPc' = [prPc EXCEPT ![r] = "failed"]
            /\ prErr' = [prErr EXCEPT ![r] = "INVALID_COURSE"]
       ELSE /\ prPc' = [prPc EXCEPT ![r] = "pkg"]
            /\ prErr' = prErr
  /\ UNCHANGED <<prepRest, prRoot, prDone, prPath, prPkg>>

\* fs.readJson of package.json, then the version check against the major of
\* the installed framework.
PrepReadPkg(r) ==
  /\ prPc[r] = "pkg"
  /\ \E readable \in BOOLEAN, v \in PkgVersions :
       IF ~readable
         THEN /\ prPc' = [prPc EXCEPT ![r] = "failed"]
              /\ prErr' = [prErr EXCEPT ![r] = "IMPORT_INVALID"]
              /\ prPkg' = prPkg
         ELSE /\ prPkg' = [prPkg EXCEPT ![r] = v]
              /\ IF ~SemverSatisfies(v, FrameworkMajor)
                   THEN /\ prPc' = [prPc EXCEPT ![r] = "failed"]
                        /\ prErr' = [prErr EXCEPT ![r] = "FW_INCOMPAT"]
                   ELSE /\ prPc' = [prPc EXCEPT ![r] = "convert"]
                        /\ prErr' = prErr
  /\ UNCHANGED <<prepRest, prRoot, prDone, prPath>>

\* convertSchemas(): octopus.runRecursive resolves or rejects.
PrepConvert(r) ==
  /\ prPc[r] = "convert"
  /\ \E converted \in BOOLEAN :
       IF converted
         THEN /\ prPc' = [prPc EXCEPT ![r] = "done"]
              /\ prErr' = prErr
         ELSE /\ prPc' = [prPc EXCEPT ![r] = "failed"]
              /\ prErr' = [prErr EXCEPT ![r] = "ConvertSchemasError"]
  /\ UNCHANGED <<prepRest, prRoot, prDone, prPath, prPkg>>

PrepNext ==
  \E r \in Runs :
    \/ PrepUnnest(r)
    \/ \E k \in DOMAIN CourseDirs : PrepStat(r, CourseDirs[k])
    \/ PrepSettled(r)
    \/ PrepReadPkg(r)
    \/ PrepConvert(r)

PrepSpec == PrepInit /\ [][PrepNext]_vars

\* Promise.allSettled of the run has returned.
PathChosen(r) == prPc[r] \notin {"unnest", "stat"}

\* C40: prepare() fails with INVALID_COURSE exactly when neither src/course nor
\* build/course exists, and two runs on the same package select the same
\* course directory, whatever the order in which their existence checks
\* complete.
C40_CoursePathSameInEveryRun ==
  \A r1 \in Runs :
    PathChosen(r1) =>
      /\ prErr[r1] = "INVALID_COURSE" <=> (~prIn.src /\ ~prIn.build)
      /\ \A r2 \in Runs : PathChosen(r2) => prPath[r1] = prPath[r2]

====
